---- MODULE Spec2Model ----
(***************************************************************************)
(* A model of stackboi: the stack metadata model, the branch classifier,  *)
(* the merge detector, and the sync engine (performSync) together with    *)
(* the handlers of the view that drive it.                                *)
(*                                                                         *)
(* JavaScript values are represented as follows:                           *)
(*   - arrays are sequences; a nullable object is <<>> (null) or <<x>>;   *)
(*   - a nullable PR number is NULL (0) or a positive number;              *)
(*   - a commit hash is the commit's identifier in CommitParents.          *)
(***************************************************************************)
EXTENDS Integers, Sequences, FiniteSets, TLC

VARIABLES
    fnIn,                \* arguments of the pure function under check
    fnOut,               \* <<>> before the call, <<result>> after it
    config,              \* the persisted metadata file: <<>> (no file) or <<its content>>
    head,                \* git: the checked-out branch, "" while HEAD is detached
    localBranches,       \* git: the local branches that exist
    rebase,              \* git: <<>> or <<the rebase in progress>>
    blocked,             \* git: the working tree has changes that stop a checkout or a rebase
    commits,             \* git: how many commits of the child branches a rebase replays
    remote,              \* the review platform: what gh pr view answers for each branch
    stacks,              \* App state: StackWithInfo[]
    currentBranch,       \* App state
    mergeNotification,   \* App state: <<>> (null) or <<notification>>
    pendingNotification, \* App state: <<>> (null) or <<notification>>
    syncProgress,        \* App state: <<>> (null) or <<progress>>
    conflictState,       \* App state: <<>> (null) or <<conflict state>>
    polls,               \* pollPRStatus invocations whose fetch is in flight
    pc,                  \* where the handleSync / performSync invocation stands
    run,                 \* the local variables of that invocation
    hist,                \* what the current sync run has done so far
    handled,             \* branches whose merge notification was confirmed or dismissed
    cli,                 \* the commands run from the command line and the last one's outcome
    detected             \* branches a poll has emitted a merge event for

fnVars == <<fnIn, fnOut>>

gitVars == <<head, localBranches, rebase, blocked, commits>>

appVars == <<stacks, currentBranch, mergeNotification, pendingNotification,
             syncProgress, conflictState>>

vars == <<fnIn, fnOut, config, head, localBranches, rebase, blocked, commits, remote,
          stacks, currentBranch, mergeNotification, pendingNotification,
          syncProgress, conflictState, polls, pc, run, hist, handled, cli, detected>>

-----------------------------------------------------------------------------
(* Generic helpers for JavaScript array operations *)

NULL == 0

Range(s) == {s[i] : i \in 1..Len(s)}

\* Array.prototype.indexOf, 0-based, -1 when absent
IndexOf(s, x) ==
    IF \E i \in 1..Len(s) : s[i] = x
    THEN (CHOOSE i \in 1..Len(s) : s[i] = x /\ \A j \in 1..(i-1) : s[j] # x) - 1
    ELSE -1

\* Array.prototype.slice(from) with a 0-based start
SliceFrom(s, from) == SubSeq(s, from + 1, Len(s))

\* Array.prototype.splice(idx, 1) with a 0-based index
RemoveAt(s, idx) == SubSeq(s, 1, idx) \o SubSeq(s, idx + 2, Len(s))

NoDup(s) == \A i, j \in 1..Len(s) : s[i] = s[j] => i = j

\* all sequences without repetition over S of length <= n
RECURSIVE DistinctSeqs(_, _)
DistinctSeqs(S, n) ==
    IF n = 0 THEN {<<>>}
    ELSE LET shorter == DistinctSeqs(S, n - 1)
             longer  == {Append(s, x) : s \in shorter, x \in S}
         IN  shorter \cup {t \in longer : NoDup(t)}

-----------------------------------------------------------------------------
(* Metadata model: src/commands/init.ts *)

DEFAULT_POLL_INTERVAL_MS == 30000

MkStack(name, base, branches) ==
    [name |-> name, baseBranch |-> base, branches |-> branches]

createDefaultConfig(defaultBranch) ==
    [version  |-> 1,
     stacks   |-> <<>>,
     settings |-> [rerere |-> [enabled |-> TRUE, autoupdate |-> TRUE],
                   defaultBaseBranch |-> defaultBranch,
                   pollIntervalMs |-> DEFAULT_POLL_INTERVAL_MS]]

loadConfig_defaultsWhenMissing(file) ==
    IF file = <<>> THEN [ok |-> TRUE, value |-> createDefaultConfig("main")]
    ELSE [ok |-> TRUE, value |-> file[1]]

\* The metadata file is represented by the StackboiConfig its JSON text
\* parses to; the text itself is modelled by fileJson and writeJson below.
\* loadConfig on the file: throws when there is no file
loadConfig(file) ==
    IF file = <<>> THEN [ok |-> FALSE, error |-> "ConfigMissing"]
    ELSE [ok |-> TRUE, value |-> file[1]]

\* saveConfig: the file after the full overwrite
saveConfig(cfg) == <<cfg>>

\* no command has been run yet
NoCli == [count |-> 0, cmd |-> "none", error |-> ""]

-----------------------------------------------------------------------------
(* The JSON text of the metadata file: Bun.file().json() and JSON.stringify *)

\* A JSON text is a layout and a tree of tagged nodes [t, v]: a numeral
\* (its spelling), a string, a boolean, an array of nodes, or an object, a
\* sequence of members [key, val] in the order they are written.  A
\* JavaScript value is a tree of the same shape, a number in place of the
\* numeral and in an object at most one property per key.
JNode(t, v) == [t |-> t, v |-> v]

JMember(key, val) == [key |-> key, val |-> val]

\* the number a numeral denotes
NumeralValue(lit) ==
    CASE lit = "1"     -> 1
      [] lit = "1.0"   -> 1
      [] lit = "30000" -> 30000
      [] lit = "3e4"   -> 30000

\* the keys of a sequence of members, each once, in order of first occurrence
RECURSIVE KeysInOrder(_)
KeysInOrder(members) ==
    IF members = <<>> THEN <<>>
    ELSE LET front == KeysInOrder(SubSeq(members, 1, Len(members) - 1))
             key   == members[Len(members)].key
         IN  IF key \in Range(front) THEN front ELSE Append(front, key)

\* JSON.parse keeps the last value written for a key
LastWith(members, key) ==
    members[CHOOSE i \in 1..Len(members) :
                /\ members[i].key = key
                /\ \A j \in (i + 1)..Len(members) : members[j].key # key].val

RECURSIVE JSONParse(_)
JSONParse(node) ==
    CASE node.t = "num" -> JNode("num", NumeralValue(node.v))
      [] node.t = "arr" -> JNode("arr", [i \in 1..Len(node.v) |-> JSONParse(node.v[i])])
      [] node.t = "obj" ->
            LET keys == KeysInOrder(node.v)
            IN  JNode("obj", [i \in 1..Len(keys) |->
                                JMember(keys[i], JSONParse(LastWith(node.v, keys[i])))])
      [] OTHER -> node

RECURSIVE JSONStringify(_)
JSONStringify(value) ==
    CASE value.t = "num" -> JNode("num", ToString(value.v))
      [] value.t = "arr" -> JNode("arr", [i \in 1..Len(value.v) |-> JSONStringify(value.v[i])])
      [] value.t = "obj" ->
            JNode("obj", [i \in 1..Len(value.v) |->
                            JMember(value.v[i].key, JSONStringify(value.v[i].val))])
      [] OTHER -> value

\* file.json() of loadConfig
fileJson(text) == JSONParse(text.root)

writeJson_emptiesStacks(value) ==
    [layout |-> "indent2",
     root   |-> JSONStringify(JNode("obj", [i \in 1..Len(value.v) |->
                    IF value.v[i].key = "stacks"
                    THEN JMember("stacks", JNode("arr", <<>>))
                    ELSE value.v[i]]))]

\* JSON.stringify(config, null, 2) + "\n" of saveConfig
writeJson(value) == [layout |-> "indent2", root |-> JSONStringify(value)]

\* config.<key> of a parsed object
Prop(value, key) == LastWith(value.v, key)

\* the fields of the schema as the program reads them from a parsed file
SchemaFields(value) ==
    [version  |-> Prop(value, "version").v,
     stacks   |-> [i \in 1..Len(Prop(value, "stacks").v) |->
                     LET st == Prop(value, "stacks").v[i]
                     IN  [name       |-> Prop(st, "name").v,
                          baseBranch |-> Prop(st, "baseBranch").v,
                          branches   |-> [k \in 1..Len(Prop(st, "branches").v) |->
                                            Prop(st, "branches").v[k].v]]],
     settings |-> LET se == Prop(value, "settings")
                  IN  [rerere |-> [enabled    |-> Prop(Prop(se, "rerere"), "enabled").v,
                                   autoupdate |-> Prop(Prop(se, "rerere"), "autoupdate").v],
                       defaultBaseBranch |-> Prop(se, "defaultBaseBranch").v,
                       pollIntervalMs    |-> Prop(se, "pollIntervalMs").v]]

-----------------------------------------------------------------------------
(* createpr: parent, position and label of a branch *)

getParentBranch_firstOnly(stack, branchName) ==
    LET branchIndex == IndexOf(stack.branches, branchName)
    IN  IF branchIndex < 0 THEN stack.baseBranch
        ELSE IF branchIndex = 0 THEN stack.branches[1]
        ELSE stack.branches[branchIndex]

getParentBranch(stack, branchName) ==
    LET branchIndex == IndexOf(stack.branches, branchName)
    IN  IF branchIndex <= 0 THEN stack.baseBranch
        ELSE stack.branches[(branchIndex - 1) + 1]

getStackPosition_zeroBased(stack, branchName) ==
    LET branchIndex == IndexOf(stack.branches, branchName)
    IN  [position |-> branchIndex, total |-> Len(stack.branches)]

getStackPosition(stack, branchName) ==
    LET branchIndex == IndexOf(stack.branches, branchName)
    IN  [position |-> branchIndex + 1, total |-> Len(stack.branches)]

\* the label name built by ensureStackLabel
ensureStackLabel(position, total) ==
    "stack:" \o ToString(position) \o "/" \o ToString(total)

-----------------------------------------------------------------------------
(* createpr: updatePRMetadataAfterSync *)

UpdatePRMetadataResult(branchName, success, updatedBase, updatedBody, updatedLabel, error) ==
    [branchName |-> branchName, success |-> success, updatedBase |-> updatedBase,
     updatedBody |-> updatedBody, updatedLabel |-> updatedLabel, error |-> error]

\* the result for a branch when the client is not authenticated
UnauthenticatedResult(branchName) ==
    [branchName |-> branchName, success |-> FALSE, error |-> "GitHub CLI not authenticated"]

UpdateOne_labelFatal(stack, branchName, pr) ==
    IF ~pr.exists
    THEN [result |-> UpdatePRMetadataResult(branchName, TRUE, FALSE, FALSE, FALSE, ""),
          calls  |-> <<>>]
    ELSE LET newBaseBranch == getParentBranch(stack, branchName)
             currentBase   == IF pr.detailsOk THEN pr.baseRefName ELSE ""
             retarget      == currentBase # "" /\ currentBase # newBaseBranch
         IN  IF retarget /\ ~pr.baseEditOk
             THEN [result |-> UpdatePRMetadataResult(branchName, FALSE, FALSE, FALSE, FALSE,
                                                     "Failed to update base branch"),
                   calls  |-> <<"base">>]
             ELSE [result |-> UpdatePRMetadataResult(branchName, pr.labelEditOk, retarget,
                                                     pr.bodyEditOk, pr.labelEditOk, ""),
                   calls  |-> (IF retarget THEN <<"base">> ELSE <<>>)
                              \o <<"label-create", "add-label", "body">>]

UpdateOne_alwaysRetargets(stack, branchName, pr) ==
    IF ~pr.exists
    THEN [result |-> UpdatePRMetadataResult(branchName, TRUE, FALSE, FALSE, FALSE, ""),
          calls  |-> <<>>]
    ELSE LET currentBase    == IF pr.detailsOk THEN pr.baseRefName ELSE ""
             oldStackLabels == IF pr.detailsOk /\ pr.hasStackLabel
                               THEN <<"remove-label">> ELSE <<>>
             retarget       == currentBase # ""
         IN  IF retarget /\ ~pr.baseEditOk
             THEN [result |-> UpdatePRMetadataResult(branchName, FALSE, FALSE, FALSE, FALSE,
                                                     "Failed to update base branch"),
                   calls  |-> <<"base">>]
             ELSE [result |-> UpdatePRMetadataResult(branchName, TRUE, retarget,
                                                     pr.bodyEditOk, pr.labelEditOk, ""),
                   calls  |-> (IF retarget THEN <<"base">> ELSE <<>>)
                              \o oldStackLabels
                              \o <<"label-create", "add-label", "body">>]

\* One turn of the loop over the affected branches.  pr is what the
\* platform answers for the branch: whether it has a pull request, whether
\* its details can be read, its base, whether it carries a stack label, and
\* the exit of each gh pr edit.  calls are the edits that are issued.
UpdateOne(stack, branchName, pr) ==
    IF ~pr.exists
    THEN [result |-> UpdatePRMetadataResult(branchName, TRUE, FALSE, FALSE, FALSE, ""),
          calls  |-> <<>>]
    ELSE LET newBaseBranch == getParentBranch(stack, branchName)
             currentBase   == IF pr.detailsOk THEN pr.baseRefName ELSE ""
             oldStackLabels == IF pr.detailsOk /\ pr.hasStackLabel
                               THEN <<"remove-label">> ELSE <<>>
             retarget      == currentBase # "" /\ currentBase # newBaseBranch
         IN  IF retarget /\ ~pr.baseEditOk
             THEN [result |-> UpdatePRMetadataResult(branchName, FALSE, FALSE, FALSE, FALSE,
                                                     "Failed to update base branch"),
                   calls  |-> <<"base">>]
             ELSE [result |-> UpdatePRMetadataResult(branchName, TRUE, retarget,
                                                     pr.bodyEditOk, pr.labelEditOk, ""),
                   calls  |-> (IF retarget THEN <<"base">> ELSE <<>>)
                              \o oldStackLabels
                              \o <<"label-create", "add-label", "body">>]

updatePRMetadataAfterSync_stopsAtFailure(stack, affectedBranches, ghAuthenticated, platform) ==
    IF ~ghAuthenticated
    THEN [i \in 1..Len(affectedBranches) |->
            [result |-> UnauthenticatedResult(affectedBranches[i]), calls |-> <<>>]]
    ELSE LET all    == [i \in 1..Len(affectedBranches) |->
                          UpdateOne(stack, affectedBranches[i], platform[affectedBranches[i]])]
             failed == {i \in 1..Len(all) : ~all[i].result.success}
             last   == IF failed = {} THEN Len(all)
                       ELSE CHOOSE i \in failed : \A j \in failed : i <= j
         IN  SubSeq(all, 1, last)

\* platform: what the platform answers for each branch
updatePRMetadataAfterSync(stack, affectedBranches, ghAuthenticated, platform) ==
    IF ~ghAuthenticated
    THEN [i \in 1..Len(affectedBranches) |->
            [result |-> UnauthenticatedResult(affectedBranches[i]), calls |-> <<>>]]
    ELSE [i \in 1..Len(affectedBranches) |->
            UpdateOne(stack, affectedBranches[i], platform[affectedBranches[i]])]

-----------------------------------------------------------------------------
(* view: branch classifier *)

\* The commit graph the classifier is exercised on.  Every commit descends
\* from the initial commit c1, as in a repository whose tracked branches
\* were created with "git checkout -b" from an existing branch (newStack,
\* addBranch) and whose upstream refs were created by pushing them.
Commits == {"c1", "c2", "c3", "c4", "c5"}

CommitParents ==
    [c \in Commits |->
        CASE c = "c1" -> {}
          [] c = "c2" -> {"c1"}
          [] c = "c3" -> {"c1"}
          [] c = "c4" -> {"c2"}
          [] c = "c5" -> {"c2", "c3"}]

RECURSIVE Ancestors(_)
Ancestors(c) == {c} \cup UNION {Ancestors(p) : p \in CommitParents[c]}

\* git merge-base: a common ancestor that every other common ancestor
\* is an ancestor of
MergeBase(x, y) ==
    LET common == Ancestors(x) \cap Ancestors(y)
    IN  CHOOSE m \in common : \A n \in common : n \in Ancestors(m)

getBranchSyncStatus_swapped(remoteExists, isCurrent, porcelainDirty, localHash, remoteHash) ==
    IF ~remoteExists THEN "needs-push"
    ELSE IF isCurrent /\ porcelainDirty THEN "needs-push"
    ELSE IF localHash = remoteHash THEN "up-to-date"
    ELSE LET base == MergeBase(localHash, remoteHash)
         IN  IF base = remoteHash THEN "needs-rebase"
             ELSE IF base = localHash THEN "needs-push"
             ELSE "conflicts"

getBranchSyncStatus_anyDirtyTree(remoteExists, isCurrent, porcelainDirty, localHash, remoteHash) ==
    IF ~remoteExists THEN "needs-push"
    ELSE IF porcelainDirty THEN "needs-push"
    ELSE IF localHash = remoteHash THEN "up-to-date"
    ELSE LET base == MergeBase(localHash, remoteHash)
         IN  IF base = remoteHash THEN "needs-push"
             ELSE IF base = localHash THEN "needs-rebase"
             ELSE "conflicts"

\* remoteExists: exit code of git rev-parse --verify origin/<branch> is 0
\* isCurrent: getCurrentBranch() = branchName
\* porcelainDirty: git status --porcelain printed something
getBranchSyncStatus(remoteExists, isCurrent, porcelainDirty, localHash, remoteHash) ==
    IF ~remoteExists THEN "needs-push"
    ELSE LET hasLocalChanges == isCurrent /\ porcelainDirty
         IN  IF hasLocalChanges THEN "needs-push"
             ELSE IF localHash = remoteHash THEN "up-to-date"
             ELSE LET base == MergeBase(localHash, remoteHash)
                  IN  IF base = remoteHash THEN "needs-push"
                      ELSE IF base = localHash THEN "needs-rebase"
                      ELSE "conflicts"

-----------------------------------------------------------------------------
(* view: remote status fetcher *)

\* What "gh pr view <branch> --json number,state,isDraft" can answer:
\* a failure (no pull request), an unparsable reply, or a pull request in
\* one of the states of its lifecycle on the platform.
NoPRReply == [exitCode |-> 1, json |-> "ok", number |-> NULL, state |-> "", isDraft |-> FALSE]

PRReply(n, state, draft) ==
    [exitCode |-> 0, json |-> "ok", number |-> n, state |-> state, isDraft |-> draft]

BadReply == [exitCode |-> 0, json |-> "bad", number |-> NULL, state |-> "", isDraft |-> FALSE]

getBranchPRInfo(reply, ghAuthenticated) ==
    IF ~ghAuthenticated THEN [prNumber |-> NULL, prStatus |-> "none"]
    ELSE IF reply.exitCode # 0 THEN [prNumber |-> NULL, prStatus |-> "none"]
    ELSE IF reply.json # "ok" THEN [prNumber |-> NULL, prStatus |-> "none"]
    ELSE [prNumber |-> reply.number,
          prStatus |-> IF reply.isDraft THEN "draft"
                       ELSE IF reply.state = "OPEN" THEN "open"
                       ELSE IF reply.state = "MERGED" THEN "merged"
                       ELSE IF reply.state = "CLOSED" THEN "closed"
                       ELSE "none"]

\* names of all branches of all stacks, in order
RECURSIVE AllBranchNames(_)
AllBranchNames(stks) ==
    IF stks = <<>> THEN <<>>
    ELSE [i \in 1..Len(stks[1].branches) |-> stks[1].branches[i].name]
             \o AllBranchNames(Tail(stks))

fetchAllPRStatuses_skipsFailed(stks, ghAuthenticated, replies) ==
    [b \in {c \in Range(AllBranchNames(stks)) : replies[c].exitCode = 0} |->
        getBranchPRInfo(replies[b], ghAuthenticated)]

\* replies: function from branch name to the reply of the remote client
fetchAllPRStatuses(stks, ghAuthenticated, replies) ==
    [b \in Range(AllBranchNames(stks)) |-> getBranchPRInfo(replies[b], ghAuthenticated)]

-----------------------------------------------------------------------------
(* view: merge detector *)

MkBranchInfo(name, prNumber, prStatus, syncStatus) ==
    [name |-> name, prNumber |-> prNumber, prStatus |-> prStatus, syncStatus |-> syncStatus]

\* does the branch at 1-based position i of stackInfo change under prStatuses
BranchChanged(branch, prStatuses) ==
    /\ branch.name \in DOMAIN prStatuses
    /\ \/ prStatuses[branch.name].prNumber # branch.prNumber
       \/ prStatuses[branch.name].prStatus # branch.prStatus

IsNewlyMerged_anyPrevious(branch, newStatus) ==
    /\ newStatus.prStatus = "merged"
    /\ newStatus.prNumber # NULL

IsNewlyMerged(branch, newStatus) ==
    /\ newStatus.prStatus = "merged"
    /\ (branch.prStatus = "open" \/ branch.prStatus = "draft")
    /\ newStatus.prNumber # NULL

ChildBranchesOf_inclusive(stackInfo, i) ==
    LET tail == SliceFrom(stackInfo.branches, i - 1)
    IN  [k \in 1..Len(tail) |-> tail[k].name]

\* i is the 1-based position of the merged branch (branchIndex + 1)
ChildBranchesOf(stackInfo, i) ==
    LET tail == SliceFrom(stackInfo.branches, (i - 1) + 1)
    IN  [k \in 1..Len(tail) |-> tail[k].name]

UpdatedBranch(branch, prStatuses) ==
    IF BranchChanged(branch, prStatuses)
    THEN [branch EXCEPT !.prNumber = prStatuses[branch.name].prNumber,
                        !.prStatus = prStatuses[branch.name].prStatus]
    ELSE branch

\* the notifications pushed while mapping the branches i..Len of one stack
RECURSIVE MergedInStack(_, _, _)
MergedInStack(stackInfo, prStatuses, i) ==
    IF i > Len(stackInfo.branches) THEN <<>>
    ELSE LET branch == stackInfo.branches[i]
             here == IF BranchChanged(branch, prStatuses)
                        /\ IsNewlyMerged(branch, prStatuses[branch.name])
                     THEN <<[branchName    |-> branch.name,
                             prNumber      |-> prStatuses[branch.name].prNumber,
                             childBranches |-> ChildBranchesOf(stackInfo, i),
                             stackName     |-> stackInfo.stack.name]>>
                     ELSE <<>>
         IN  here \o MergedInStack(stackInfo, prStatuses, i + 1)

RECURSIVE NewlyMergedFrom(_, _, _)
NewlyMergedFrom(stks, prStatuses, s) ==
    IF s > Len(stks) THEN <<>>
    ELSE MergedInStack(stks[s], prStatuses, 1) \o NewlyMergedFrom(stks, prStatuses, s + 1)

applyPRStatusUpdates(stks, prStatuses) ==
    [updated     |-> [s \in 1..Len(stks) |->
                        [stks[s] EXCEPT !.branches =
                            [i \in 1..Len(stks[s].branches) |->
                                UpdatedBranch(stks[s].branches[i], prStatuses)]]],
     hasChanges  |-> \E s \in 1..Len(stks) : \E i \in 1..Len(stks[s].branches) :
                        BranchChanged(stks[s].branches[i], prStatuses),
     newlyMerged |-> NewlyMergedFrom(stks, prStatuses, 1)]

-----------------------------------------------------------------------------
(* Inputs of the pure functions *)

BranchNames == {"a", "b", "c"}

MaxLen == 3

\* stacks whose branches are pairwise different (newStack and addBranch
\* refuse a branch that is already part of a stack) and do not contain the
\* base branch
StackInputs == {MkStack("s1", "main", bs) : bs \in DistinctSeqs(BranchNames, MaxLen)}

BranchNameInputs == BranchNames \cup {"main", "zz"}

PRNumberOf(b) == CASE b = "a" -> 11 [] b = "b" -> 12 [] b = "c" -> 13 [] OTHER -> 19

\* ways of splitting the tracked branches into stacks
StackShapes ==
    { << MkStack("s1", "main", <<"a", "b", "c">>) >>,
      << MkStack("s1", "main", <<"a", "b">>), MkStack("s2", "main", <<"c">>) >>,
      << MkStack("s1", "main", <<"a">>), MkStack("s2", "dev", <<"b", "c">>) >> }

PRStatuses == {"open", "merged", "closed", "draft", "none"}

\* a BranchInfo as getStacksWithInfo builds it from a previous fetch
PreviousInfo(b, st) ==
    MkBranchInfo(b, IF st = "none" THEN NULL ELSE PRNumberOf(b), st, "up-to-date")

ReplyKinds == {"no-pr", "open", "draft", "merged", "closed"}

ReplyOf(b, kind) ==
    CASE kind = "no-pr"  -> NoPRReply
      [] kind = "open"   -> PRReply(PRNumberOf(b), "OPEN", FALSE)
      [] kind = "draft"  -> PRReply(PRNumberOf(b), "OPEN", TRUE)
      [] kind = "merged" -> PRReply(PRNumberOf(b), "MERGED", FALSE)
      [] kind = "closed" -> PRReply(PRNumberOf(b), "CLOSED", FALSE)

\* getStacksWithInfo: one BranchInfo per branch of the stack, in order
StacksWithInfo(shape, info) ==
    [s \in 1..Len(shape) |->
        [stack    |-> shape[s],
         branches |-> [i \in 1..Len(shape[s].branches) |-> info[shape[s].branches[i]]]]]

\* a BranchInfo as getStacksWithInfo builds it from the platform's answer
CurrentInfo(b, kind) ==
    LET info == getBranchPRInfo(ReplyOf(b, kind), TRUE)
    IN  MkBranchInfo(b, info.prNumber, info.prStatus, "up-to-date")

\* the JSON text of one stack and of the settings
StackText(st) ==
    JNode("obj", << JMember("name", JNode("str", st.name)),
                    JMember("baseBranch", JNode("str", st.baseBranch)),
                    JMember("branches", JNode("arr", [k \in 1..Len(st.branches) |->
                                                        JNode("str", st.branches[k])])) >>)

SettingsText(pollLit) ==
    JNode("obj", << JMember("rerere", JNode("obj", << JMember("enabled", JNode("bool", TRUE)),
                                                      JMember("autoupdate", JNode("bool", TRUE)) >>)),
                    JMember("defaultBaseBranch", JNode("str", "main")),
                    JMember("pollIntervalMs", JNode("num", pollLit)) >>)

\* Metadata files as the program writes them and as an editor may leave
\* them: either layout, either spelling of a number, the members in either
\* order, a key written twice, a member the schema does not know.
ConfigTexts ==
    { [layout |-> layout,
       root   |-> JNode("obj",
                     (IF twice THEN << JMember("stacks", JNode("arr", <<>>)) >> ELSE <<>>)
                     \o (IF settingsFirst
                         THEN << JMember("settings", SettingsText(pollLit)),
                                 JMember("version", JNode("num", verLit)),
                                 JMember("stacks", JNode("arr", [i \in 1..Len(shape) |-> StackText(shape[i])])) >>
                         ELSE << JMember("version", JNode("num", verLit)),
                                 JMember("stacks", JNode("arr", [i \in 1..Len(shape) |-> StackText(shape[i])])),
                                 JMember("settings", SettingsText(pollLit)) >>)
                     \o (IF extra THEN << JMember("note", JNode("str", "x")) >> ELSE <<>>))] :
        layout \in {"indent2", "compact"}, verLit \in {"1", "1.0"}, pollLit \in {"30000", "3e4"},
        shape \in StackShapes \cup {<<>>}, settingsFirst \in BOOLEAN, twice \in BOOLEAN,
        extra \in BOOLEAN }

\* what the platform can answer about the pull request of a branch
PRAnswers ==
    [exists : BOOLEAN, detailsOk : BOOLEAN, baseRefName : {"main", "a", "b"},
     hasStackLabel : BOOLEAN, baseEditOk : BOOLEAN, labelEditOk : BOOLEAN,
     bodyEditOk : BOOLEAN]

\* a stack after a sync and the branches the sync has affected
StacksAfterSync == {MkStack("s1", "main", <<"a", "b", "c">>), MkStack("s1", "main", <<"b", "c">>)}

AffectedBranchInputs == {<<"b">>, <<"c">>, <<"b", "c">>}

-----------------------------------------------------------------------------
(* The working tree as the engine's git commands see it *)

Files == {"f1", "f2"}

MaxCommits == 3

\* How a rebase or continue invocation can end.  A stop on a conflict is
\* described by what the engine can observe about it afterwards: the files
\* "git rerere status" lists and the files "git diff --diff-filter=U" lists.
Outcome(kind, rr, un) == [kind |-> kind, rerere |-> rr, unmerged |-> un]

ExitOk == Outcome("ok", {}, {})

ExitFail == Outcome("fail", {}, {})

ConflictStops ==
    { Outcome("conflict", {"f1"}, {}),
      Outcome("conflict", {"f2"}, {}),
      Outcome("conflict", {"f1"}, {"f2"}),
      Outcome("conflict", {}, {"f1"}),
      Outcome("conflict", {}, {}) }

\* the pattern store covers a stop: nothing is left unmerged and it reports
\* at least one resolved file
Covered(o) == o.kind = "conflict" /\ o.unmerged = {} /\ o.rerere # {}

\* git checkout <b> with h checked out and rb the rebase state: the branch
\* must exist; switching to another branch is refused on a blocked working
\* tree and while files are unmerged
CheckoutOk(b, h, rb) ==
    /\ b \in localBranches
    /\ \/ b = h
       \/ ~blocked /\ (rb = <<>> \/ rb[1].unmerged = {})

CheckoutSucceeds(b) == CheckoutOk(b, head, rebase)

HeadAfterCheckout(b) == IF CheckoutSucceeds(b) THEN b ELSE head

\* git rebase --update-refs origin/<base>: refuses to start on a blocked
\* working tree or while another rebase is in progress
RebaseOutcomes ==
    IF blocked \/ rebase # <<>> THEN {ExitFail}
    ELSE {ExitOk, ExitFail} \cup ConflictStops

\* git rebase --continue, asked with nothing left unmerged: the replay ends,
\* or stops again on a later commit; it stops at most once per commit
ContinueOutcomes ==
    {ExitOk} \cup (IF hist.conflicts < commits THEN ConflictStops ELSE {})

\* the rebase state while stopped at outcome o; headName is the branch the
\* rebase was started on
RebaseStoppedAt(headName, o) ==
    <<[headName |-> headName, rerere |-> o.rerere, unmerged |-> o.unmerged]>>

\* git rebase --abort: back to the branch the rebase was started on
HeadAfterAbort == IF rebase = <<>> THEN head ELSE rebase[1].headName

\* git add <file> for every file of a list
RebaseAfterAdd(files) ==
    IF rebase = <<>> THEN rebase
    ELSE <<[rebase[1] EXCEPT !.unmerged = @ \ files]>>

\* git rerere status
getRerereResolvedFiles == IF rebase = <<>> THEN {} ELSE rebase[1].rerere

\* git diff --name-only --diff-filter=U
getUnresolvedConflicts == IF rebase = <<>> THEN {} ELSE rebase[1].unmerged

\* git status --porcelain, the lines of unmerged paths
getAllConflictedFiles == IF rebase = <<>> THEN {} ELSE rebase[1].unmerged

\* git branch --show-current
getCurrentBranch == head

-----------------------------------------------------------------------------
(* performSync and handleSync *)

MaxSyncs == 2

MkNotification(branchName, prNumber, childBranches, stackName) ==
    [branchName |-> branchName, prNumber |-> prNumber,
     childBranches |-> childBranches, stackName |-> stackName]

MkProgress(state, cur, err, rr) ==
    [state |-> state, currentBranch |-> cur, error |-> err, rerereResolved |-> rr]

NoRun ==
    [notification |-> <<>>, cfg |-> <<>>, originalBranch |-> "",
     rerereResolved |-> {}, moreRerereResolved |-> {}, allConflicts |-> {}]

NoHist ==
    [syncs |-> 0, startHead |-> "", startConfig |-> <<>>, startInRebase |-> FALSE,
     startBranches |-> {},
     result |-> "none", lastExit |-> "none",
     aborted |-> FALSE, conflicts |-> 0, continues |-> 0, covered |-> TRUE,
     log |-> <<>>, progress |-> <<>>]

\* what the App renders, in the order of the returns of App
Screen ==
    IF syncProgress # <<>> THEN "sync"
    ELSE IF mergeNotification # <<>> THEN "merge"
    ELSE IF conflictState # <<>> THEN "conflict"
    ELSE "tree"

\* childBranches[0] and childBranches[length - 1]
FirstChild(childBranches) ==
    IF childBranches = <<>> THEN "undefined" ELSE childBranches[1]

TipBranch(childBranches) ==
    IF childBranches = <<>> THEN "undefined" ELSE childBranches[Len(childBranches)]

\* config.stacks.find((s) => s.name === stackName): 0 when there is none
FindStack(cfg, stackName) ==
    IF \E s \in 1..Len(cfg.stacks) : cfg.stacks[s].name = stackName
    THEN CHOOSE s \in 1..Len(cfg.stacks) :
            /\ cfg.stacks[s].name = stackName
            /\ \A t \in 1..(s - 1) : cfg.stacks[t].name # stackName
    ELSE 0

HasChildren_always(childBranches) == TRUE

\* Step 3 is entered only if there are child branches
HasChildren(childBranches) == Len(childBranches) > 0

RemoveMergedBranch_withDescendants(cfg, stackName, mergedBranch) ==
    LET s   == FindStack(cfg, stackName)
        idx == IndexOf(cfg.stacks[s].branches, mergedBranch)
    IN  IF idx # -1
        THEN [cfg EXCEPT !.stacks[s].branches = SubSeq(@, 1, idx)]
        ELSE cfg

\* Step 4 applied to the configuration loaded in Step 2
RemoveMergedBranch(cfg, stackName, mergedBranch) ==
    LET s   == FindStack(cfg, stackName)
        idx == IndexOf(cfg.stacks[s].branches, mergedBranch)
    IN  IF idx # -1
        THEN [cfg EXCEPT !.stacks[s].branches = RemoveAt(@, idx)]
        ELSE cfg

\* where the run goes after the rebase has exited
OnRebaseExit(o) ==
    IF o.kind = "ok" THEN "restore"
    ELSE IF o.kind = "conflict" THEN "query1"
    ELSE "failAbort"

\* the decision after the first query of the pattern store
OnFirstQuery(rerereResolved, unresolvedConflicts) ==
    IF unresolvedConflicts = {} /\ rerereResolved # {} THEN "continue1"
    ELSE IF unresolvedConflicts # {} THEN "allConflicts"
    ELSE "noResAbort"

OnContinueFailed_giveUp(moreRerereResolved, moreUnresolved) ==
    IF moreUnresolved = {} /\ moreRerereResolved # {} THEN "allConflicts"
    ELSE IF moreUnresolved # {} THEN "allConflicts"
    ELSE "restore"

\* the decision after the first continue has failed; with nothing unresolved
\* and nothing resolved neither branch returns and the run goes on
OnContinueFailed(moreRerereResolved, moreUnresolved) ==
    IF moreUnresolved = {} /\ moreRerereResolved # {} THEN "loop"
    ELSE IF moreUnresolved # {} THEN "allConflicts"
    ELSE "restore"

\* the decision inside the while loop after a continue has failed
OnLoopContinueFailed(nextRerere, nextUnresolved) ==
    IF nextUnresolved # {} \/ nextRerere = {} THEN "allConflicts"
    ELSE "loop"

Logged(h, op) == [h EXCEPT !.log = Append(@, op)]

Emitted(h, state) == [h EXCEPT !.progress = Append(@, state)]

\* lastExit: how the most recent rebase or continue invocation ended
Stopped(h, o) ==
    [h EXCEPT !.conflicts = IF o.kind = "conflict" THEN @ + 1 ELSE @,
              !.covered   = @ /\ (o.kind = "ok" \/ Covered(o)),
              !.lastExit  = o.kind]

\* a continue that git refused or that failed where the rebase stood; a run
\* of continues that fail one after the other without moving the rebase is
\* recorded once
Refused(h, exit) ==
    IF h.lastExit = exit /\ exit = "stalled" THEN h
    ELSE [Logged(Logged(h, "add"), "continue") EXCEPT !.continues = @ + 1,
                                                     !.covered = FALSE,
                                                     !.lastExit = exit]

Merged == run.notification[1].branchName

Children == run.notification[1].childBranches

\* "y" on the merge notification: handleSync up to the first await of
\* performSync
HandleSync ==
    /\ Screen = "merge"
    /\ pc = "idle"
    /\ hist.syncs < MaxSyncs
    /\ handled' = handled \cup {mergeNotification[1].branchName}
    /\ mergeNotification' = <<>>
    /\ pendingNotification' = mergeNotification
    /\ run' = [NoRun EXCEPT !.notification = mergeNotification]
    /\ syncProgress' = <<MkProgress("fetching", <<>>, <<>>, {})>>
    /\ hist' = [NoHist EXCEPT !.syncs = hist.syncs + 1, !.startHead = head,
                              !.startConfig = config, !.startInRebase = (rebase # <<>>),
                              !.startBranches = localBranches,
                              !.progress = <<"fetching">>]
    /\ pc' = "fetch"
    /\ UNCHANGED <<fnVars, cli, detected, config, gitVars, remote, stacks, currentBranch,
                   conflictState, polls>>

SyncFetch_retriesOnce ==
    /\ pc = "fetch"
    /\ \E ok \in BOOLEAN :
          IF ok
          THEN /\ pc' = "load"
               /\ hist' = Logged(hist, "fetch")
               /\ UNCHANGED syncProgress
          ELSE IF hist.log = <<>>
          THEN /\ pc' = "fetch"
               /\ hist' = Logged(hist, "fetch")
               /\ UNCHANGED syncProgress
          ELSE /\ pc' = "idle"
               /\ syncProgress' = <<MkProgress("error", <<>>, <<"fetch">>, {})>>
               /\ hist' = [Emitted(Logged(hist, "fetch"), "error") EXCEPT !.result = "error"]
    /\ UNCHANGED <<fnVars, cli, detected, handled, config, gitVars, remote, stacks, currentBranch,
                   mergeNotification, pendingNotification, conflictState, polls, run>>

\* Step 1: git fetch origin
SyncFetch ==
    /\ pc = "fetch"
    /\ \E ok \in BOOLEAN :
          IF ok
          THEN /\ pc' = "load"
               /\ hist' = Logged(hist, "fetch")
               /\ UNCHANGED syncProgress
          ELSE /\ pc' = "idle"
               /\ syncProgress' = <<MkProgress("error", <<>>, <<"fetch">>, {})>>
               /\ hist' = [Emitted(Logged(hist, "fetch"), "error") EXCEPT !.result = "error"]
    /\ UNCHANGED <<fnVars, cli, detected, handled, config, gitVars, remote, stacks, currentBranch,
                   mergeNotification, pendingNotification, conflictState, polls, run>>

\* the rest of Step 2 on the loaded configuration: find the stack; then
\* either announce the rebase and ask for the current branch, or go to Step 4
SyncFindStack(cfg) ==
    IF FindStack(cfg, run.notification[1].stackName) = 0
    THEN /\ pc' = "idle"
         /\ syncProgress' = <<MkProgress("error", <<>>, <<"stack-not-found">>, {})>>
         /\ hist' = [Emitted(Logged(hist, "loadConfig"), "error") EXCEPT !.result = "error"]
    ELSE IF HasChildren(Children)
    THEN /\ pc' = "showCurrent"
         /\ syncProgress' = <<MkProgress("rebasing", <<FirstChild(Children)>>, <<>>, {})>>
         /\ hist' = Emitted(Logged(hist, "loadConfig"), "rebasing")
    ELSE /\ pc' = "save"
         /\ hist' = Logged(hist, "loadConfig")
         /\ UNCHANGED syncProgress

\* Step 2: load the configuration; loadConfig throws when the file is
\* missing, and nothing in performSync or handleSync catches it
SyncLoad ==
    /\ pc = "load"
    /\ IF ~loadConfig(config).ok
       THEN /\ pc' = "thrown"
            /\ hist' = [Logged(hist, "loadConfig") EXCEPT !.result = "thrown"]
            /\ UNCHANGED <<syncProgress, run>>
       ELSE /\ run' = [run EXCEPT !.cfg = <<loadConfig(config).value>>]
            /\ SyncFindStack(loadConfig(config).value)
    /\ UNCHANGED <<fnVars, cli, detected, handled, config, gitVars, remote, stacks, currentBranch,
                   mergeNotification, pendingNotification, conflictState, polls>>

\* git branch --show-current: the branch to return to
SyncShowCurrent ==
    /\ pc = "showCurrent"
    /\ run' = [run EXCEPT !.originalBranch = getCurrentBranch]
    /\ pc' = "checkoutTip"
    /\ UNCHANGED <<fnVars, cli, detected, handled, config, gitVars, remote, appVars, polls, hist>>

\* git checkout <tipBranch>
SyncCheckoutTip ==
    /\ pc = "checkoutTip"
    /\ LET tipBranch == TipBranch(Children)
       IN  IF CheckoutSucceeds(tipBranch)
           THEN /\ head' = tipBranch
                /\ pc' = "rebase"
                /\ hist' = Logged(hist, "checkout")
                /\ UNCHANGED syncProgress
           ELSE /\ pc' = "idle"
                /\ syncProgress' = <<MkProgress("error", <<tipBranch>>, <<"checkout">>, {})>>
                /\ hist' = [Emitted(Logged(hist, "checkout"), "error") EXCEPT !.result = "error"]
                /\ UNCHANGED head
    /\ UNCHANGED <<fnVars, cli, detected, handled, config, localBranches, rebase, blocked, commits, remote, stacks,
                   currentBranch, mergeNotification, pendingNotification,
                   conflictState, polls, run>>

\* git rebase --update-refs origin/<baseBranch>
SyncRebase ==
    /\ pc = "rebase"
    /\ \E o \in RebaseOutcomes :
          /\ pc' = OnRebaseExit(o)
          /\ IF o.kind = "conflict"
             THEN /\ rebase' = RebaseStoppedAt(head, o)
                  /\ head' = ""
             ELSE UNCHANGED <<rebase, head>>
          /\ IF OnRebaseExit(o) = "query1"
             THEN /\ syncProgress' = <<MkProgress("checking-conflicts", <<TipBranch(Children)>>, <<>>, {})>>
                  /\ hist' = Emitted(Stopped(Logged(hist, "rebase"), o), "checking-conflicts")
             ELSE IF OnRebaseExit(o) = "failAbort"
             THEN /\ syncProgress' = <<MkProgress("error", <<TipBranch(Children)>>, <<"rebase">>, {})>>
                  /\ hist' = Emitted(Stopped(Logged(hist, "rebase"), o), "error")
             ELSE /\ hist' = Stopped(Logged(hist, "rebase"), o)
                  /\ UNCHANGED syncProgress
    /\ UNCHANGED <<fnVars, cli, detected, handled, config, localBranches, blocked, commits, remote, stacks,
                   currentBranch, mergeNotification, pendingNotification,
                   conflictState, polls, run>>

\* the first query of the pattern store and of the unmerged files
SyncFirstQuery ==
    /\ pc = "query1"
    /\ LET rerereResolved == getRerereResolvedFiles
           unresolvedConflicts == getUnresolvedConflicts
           next == OnFirstQuery(rerereResolved, unresolvedConflicts)
       IN  /\ run' = [run EXCEPT !.rerereResolved = rerereResolved]
           /\ pc' = next
           /\ IF next = "continue1"
              THEN /\ syncProgress' = <<MkProgress("rebasing", <<TipBranch(Children)>>, <<>>, rerereResolved)>>
                   /\ hist' = Emitted(hist, "rebasing")
              ELSE UNCHANGED <<syncProgress, hist>>
    /\ UNCHANGED <<fnVars, cli, detected, handled, config, gitVars, remote, stacks, currentBranch,
                   mergeNotification, pendingNotification, conflictState, polls>>

\* git add of the resolved files, then git rebase --continue: git refuses
\* to go on while a file is unmerged or when no rebase is in progress;
\* otherwise the replay goes on to its end or to its next stop, or the
\* continue fails where the rebase stands (the commit cannot be made) and
\* leaves it there
ContinueStep(files, onOk, onFail) ==
    LET staged == RebaseAfterAdd(files)
    IN  IF staged = <<>>
        THEN /\ pc' = onFail
             /\ hist' = Refused(hist, "refused")
             /\ UNCHANGED <<rebase, head>>
        ELSE IF staged[1].unmerged # {}
        THEN /\ pc' = onFail
             /\ rebase' = staged
             /\ hist' = Refused(hist, "refused")
             /\ UNCHANGED head
        ELSE \/ \E o \in ContinueOutcomes :
                   /\ IF o.kind = "ok"
                      THEN /\ rebase' = <<>>
                           /\ head' = staged[1].headName
                           /\ pc' = onOk
                      ELSE /\ rebase' = RebaseStoppedAt(staged[1].headName, o)
                           /\ head' = ""
                           /\ pc' = onFail
                   /\ hist' = [Stopped(Logged(Logged(hist, "add"), "continue"), o)
                                  EXCEPT !.continues = @ + 1]
             \/ /\ rebase' = staged
                /\ pc' = onFail
                /\ hist' = Refused(hist, "stalled")
                /\ UNCHANGED head

SyncFirstContinue ==
    /\ pc = "continue1"
    /\ ContinueStep(run.rerereResolved, "restore", "query2")
    /\ UNCHANGED <<fnVars, cli, detected, handled, config, localBranches, blocked, commits, remote, appVars, polls, run>>

\* the query after the first continue has failed
SyncSecondQuery ==
    /\ pc = "query2"
    /\ run' = [run EXCEPT !.moreRerereResolved = getRerereResolvedFiles]
    /\ pc' = OnContinueFailed(getRerereResolvedFiles, getUnresolvedConflicts)
    /\ UNCHANGED <<fnVars, cli, detected, handled, config, gitVars, remote, appVars, polls, hist>>

\* one turn of the while loop: stage, continue
SyncLoopContinue ==
    /\ pc = "loop"
    /\ ContinueStep(run.moreRerereResolved, "restore", "loopQuery")
    /\ UNCHANGED <<fnVars, cli, detected, handled, config, localBranches, blocked, commits, remote, appVars, polls, run>>

\* the query inside the while loop
SyncLoopQuery ==
    /\ pc = "loopQuery"
    /\ pc' = OnLoopContinueFailed(getRerereResolvedFiles, getUnresolvedConflicts)
    /\ UNCHANGED <<fnVars, cli, detected, handled, config, gitVars, remote, appVars, polls, run, hist>>

SyncAllConflicts_aborts ==
    /\ pc = "allConflicts"
    /\ run' = [run EXCEPT !.allConflicts = getAllConflictedFiles]
    /\ head' = HeadAfterAbort
    /\ rebase' = <<>>
    /\ syncProgress' = <<>>
    /\ hist' = [Logged(hist, "abort") EXCEPT !.result = "unresolved"]
    /\ pc' = "conflictState"
    /\ UNCHANGED <<fnVars, cli, detected, handled, config, localBranches, blocked, commits,
                   remote, stacks, currentBranch,
                   mergeNotification, pendingNotification, conflictState, polls>>

\* getAllConflictedFiles, the unresolved-conflicts result, and handleSync up
\* to its await of getCurrentBranch
SyncAllConflicts ==
    /\ pc = "allConflicts"
    /\ run' = [run EXCEPT !.allConflicts = getAllConflictedFiles]
    /\ syncProgress' = <<>>
    /\ hist' = [hist EXCEPT !.result = "unresolved"]
    /\ pc' = "conflictState"
    /\ UNCHANGED <<fnVars, cli, detected, handled, config, gitVars, remote, stacks, currentBranch,
                   mergeNotification, pendingNotification, conflictState, polls>>

\* handleSync after getCurrentBranch has answered
HandleSyncConflictState ==
    /\ pc = "conflictState"
    /\ conflictState' = <<[conflictedFiles |-> run.allConflicts,
                           rerereResolved  |-> run.rerereResolved,
                           tipBranch       |-> IF Children = <<>> THEN "" ELSE TipBranch(Children),
                           originalBranch  |-> getCurrentBranch]>>
    /\ pc' = "idle"
    /\ UNCHANGED <<fnVars, cli, detected, handled, config, gitVars, remote, stacks, currentBranch,
                   mergeNotification, pendingNotification, syncProgress,
                   polls, run, hist>>

\* a conflict with nothing unresolved and nothing resolved: abort, then
\* report
SyncNoResolutionAbort ==
    /\ pc = "noResAbort"
    /\ head' = HeadAfterAbort
    /\ rebase' = <<>>
    /\ syncProgress' = <<MkProgress("error", <<TipBranch(Children)>>, <<"conflicts">>, {})>>
    /\ hist' = Emitted(Logged(hist, "abort"), "error")
    /\ pc' = "errCheckout"
    /\ UNCHANGED <<fnVars, cli, detected, handled, config, localBranches, blocked, commits, remote, stacks, currentBranch,
                   mergeNotification, pendingNotification, conflictState, polls, run>>

\* a failure that is not a conflict: the abort after the report
SyncFailureAbort ==
    /\ pc = "failAbort"
    /\ head' = HeadAfterAbort
    /\ rebase' = <<>>
    /\ hist' = Logged(hist, "abort")
    /\ pc' = "errCheckout"
    /\ UNCHANGED <<fnVars, cli, detected, handled, config, localBranches, blocked, commits, remote, appVars, polls, run>>

\* git checkout <originalBranch>, then the error result
SyncErrorCheckout ==
    /\ pc = "errCheckout"
    /\ head' = HeadAfterCheckout(run.originalBranch)
    /\ hist' = [Logged(hist, "checkout") EXCEPT !.result = "error"]
    /\ pc' = "idle"
    /\ UNCHANGED <<fnVars, cli, detected, handled, config, localBranches, rebase, blocked, commits, remote, appVars, polls, run>>

\* after the rebase: back to the original branch, or to the first child
SyncRestore ==
    /\ pc = "restore"
    /\ IF run.originalBranch # "" /\ run.originalBranch # Merged
       THEN head' = HeadAfterCheckout(run.originalBranch)
       ELSE head' = HeadAfterCheckout(FirstChild(Children))
    /\ hist' = Logged(hist, "checkout")
    /\ pc' = "save"
    /\ UNCHANGED <<fnVars, cli, detected, handled, config, localBranches, rebase, blocked, commits, remote, appVars, polls, run>>

\* Step 4: remove the merged branch from the loaded configuration and
\* write the file
SyncSave ==
    /\ pc = "save"
    /\ LET cfg == run.cfg[1]
           stackName == run.notification[1].stackName
           idx == IndexOf(cfg.stacks[FindStack(cfg, stackName)].branches, Merged)
       IN  IF idx # -1
           THEN /\ config' = saveConfig(RemoveMergedBranch(cfg, stackName, Merged))
                /\ hist' = Logged(hist, "saveConfig")
           ELSE UNCHANGED <<config, hist>>
    /\ pc' = "deleteBranch"
    /\ UNCHANGED <<fnVars, cli, detected, handled, gitVars, remote, appVars, polls, run>>

\* Step 5: git branch -d <mergedBranch>, which git refuses for the
\* checked-out branch and for a branch it does not see as merged; then the
\* success report and result
SyncDeleteBranch ==
    /\ pc = "deleteBranch"
    /\ \E deleted \in BOOLEAN :
          /\ deleted => (Merged \in localBranches /\ Merged # head)
          /\ localBranches' = IF deleted THEN localBranches \ {Merged} ELSE localBranches
    /\ syncProgress' = <<MkProgress("success", <<>>, <<>>, {})>>
    /\ hist' = [Emitted(Logged(hist, "branch-d"), "success") EXCEPT !.result = "success"]
    /\ pc' = "idle"
    /\ UNCHANGED <<fnVars, cli, detected, handled, config, head, rebase, blocked, commits, remote, stacks, currentBranch,
                   mergeNotification, pendingNotification, conflictState, polls, run>>

-----------------------------------------------------------------------------
(* The other handlers of App *)

MaxPolls == 2

\* any key on the progress overlay once the run has reported success or
\* error; after a success the stacks and the current branch are reloaded
HandleSyncProgressDismiss ==
    /\ Screen = "sync"
    /\ syncProgress[1].state \in {"success", "error"}
    /\ syncProgress' = <<>>
    /\ IF syncProgress[1].state = "success"
       THEN IF loadConfig(config).ok
            THEN /\ stacks' = StacksWithInfo(loadConfig(config).value.stacks,
                                  [b \in BranchNames |-> CurrentInfo(b, remote[b])])
                 /\ currentBranch' = getCurrentBranch
            ELSE UNCHANGED <<stacks, currentBranch>>
       ELSE UNCHANGED <<stacks, currentBranch>>
    /\ UNCHANGED <<fnVars, cli, detected, handled, config, gitVars, remote, mergeNotification,
                   pendingNotification, conflictState, polls, pc, run, hist>>

HandleAbortRebase_dropsBranch ==
    /\ Screen = "conflict"
    /\ head' = IF CheckoutOk(conflictState[1].originalBranch, HeadAfterAbort, <<>>)
               THEN conflictState[1].originalBranch
               ELSE HeadAfterAbort
    /\ rebase' = <<>>
    /\ config' = IF pendingNotification = <<>> \/ config = <<>> THEN config
                 ELSE <<RemoveMergedBranch(config[1], pendingNotification[1].stackName,
                                           pendingNotification[1].branchName)>>
    /\ conflictState' = <<>>
    /\ pendingNotification' = <<>>
    /\ currentBranch' = head'
    /\ hist' = [hist EXCEPT !.aborted = TRUE]
    /\ UNCHANGED <<fnVars, cli, detected, handled, localBranches, blocked, commits, remote, stacks,
                   mergeNotification, syncProgress, polls, pc, run>>

\* "a" on the conflict overlay: git rebase --abort, git checkout of the
\* recorded original branch, then the current branch is read again
HandleAbortRebase ==
    /\ Screen = "conflict"
    /\ head' = IF CheckoutOk(conflictState[1].originalBranch, HeadAfterAbort, <<>>)
               THEN conflictState[1].originalBranch
               ELSE HeadAfterAbort
    /\ rebase' = <<>>
    /\ conflictState' = <<>>
    /\ pendingNotification' = <<>>
    /\ currentBranch' = head'
    /\ hist' = [hist EXCEPT !.aborted = TRUE]
    /\ UNCHANGED <<fnVars, cli, detected, handled, config, localBranches, blocked, commits, remote, stacks,
                   mergeNotification, syncProgress, polls, pc, run>>

HandleDismissMergeNotification_marksWholeStack ==
    /\ Screen = "merge"
    /\ stacks' = [s \in 1..Len(stacks) |->
                    [stacks[s] EXCEPT !.branches =
                        [i \in 1..Len(stacks[s].branches) |->
                            IF stacks[s].stack.name = mergeNotification[1].stackName
                            THEN [stacks[s].branches[i] EXCEPT !.syncStatus = "pending-sync"]
                            ELSE stacks[s].branches[i]]]]
    /\ mergeNotification' = <<>>
    /\ handled' = handled \cup {mergeNotification[1].branchName}
    /\ UNCHANGED <<fnVars, cli, detected, config, gitVars, remote, currentBranch, pendingNotification,
                   syncProgress, conflictState, polls, pc, run, hist>>

\* "n" on the merge notification: the child branches are marked
\* pending-sync and the notification is cleared
HandleDismissMergeNotification ==
    /\ Screen = "merge"
    /\ stacks' = [s \in 1..Len(stacks) |->
                    [stacks[s] EXCEPT !.branches =
                        [i \in 1..Len(stacks[s].branches) |->
                            IF stacks[s].branches[i].name \in Range(mergeNotification[1].childBranches)
                            THEN [stacks[s].branches[i] EXCEPT !.syncStatus = "pending-sync"]
                            ELSE stacks[s].branches[i]]]]
    /\ mergeNotification' = <<>>
    /\ handled' = handled \cup {mergeNotification[1].branchName}
    /\ UNCHANGED <<fnVars, cli, detected, config, gitVars, remote, currentBranch, pendingNotification,
                   syncProgress, conflictState, polls, pc, run, hist>>

\* a tick of the poll timer: pollPRStatus starts with the stacks and the
\* notification of the render that installed the interval
PollTick ==
    /\ stacks # <<>>
    /\ Len(polls) < MaxPolls
    /\ polls' = Append(polls, [stacks |-> stacks, mergeNotification |-> mergeNotification])
    /\ UNCHANGED <<fnVars, cli, detected, handled, config, gitVars, remote, appVars, pc, run, hist>>

\* the fetch of one pollPRStatus invocation has answered
PollDone ==
    \E p \in 1..Len(polls) :
       LET prStatuses == fetchAllPRStatuses(polls[p].stacks, TRUE,
                             [b \in BranchNames |-> ReplyOf(b, remote[b])])
           result == applyPRStatusUpdates(polls[p].stacks, prStatuses)
       IN  /\ stacks' = IF result.hasChanges THEN result.updated ELSE stacks
           /\ mergeNotification' =
                 IF Len(result.newlyMerged) > 0 /\ polls[p].mergeNotification = <<>>
                 THEN <<result.newlyMerged[1]>>
                 ELSE mergeNotification
           /\ polls' = RemoveAt(polls, p - 1)
           /\ detected' = detected \cup {result.newlyMerged[k].branchName :
                                             k \in 1..Len(result.newlyMerged)}
           /\ UNCHANGED <<fnVars, cli, handled, config, gitVars, remote, currentBranch,
                          pendingNotification, syncProgress, conflictState,
                          pc, run, hist>>

\* the review platform: the open or draft pull request of a tracked branch
\* is merged
RemoteMerge ==
    \E b \in Range(AllBranchNames(stacks)) :
       /\ remote[b] \in {"open", "draft"}
       /\ remote' = [remote EXCEPT ![b] = "merged"]
       /\ UNCHANGED <<fnVars, cli, detected, handled, config, gitVars, appVars, polls, pc, run, hist>>

-----------------------------------------------------------------------------
(* The commands: init, newStack, addBranch, createPR *)

MaxCmds == 4

\* what a command is given as a branch name: a tracked name, or nothing
BranchNameArgs == BranchNames \cup {""}

\* A name is a string; where the code looks inside a name the model looks at
\* its spelling, the sequence of its characters.
RECURSIVE Join(_)
Join(chars) == IF chars = <<>> THEN "" ELSE chars[1] \o Join(Tail(chars))

\* names that pass validateBranchName: plain ones, and ones that come close
\* to a rule (a tab is white space but not a space)
AcceptedSpellings ==
    { <<"a">>, <<"b">>, <<"c">>,
      <<"a", ".", "b">>, <<"a", "\t", "b">> }

\* names that break one rule of validateBranchName, or several
RejectedSpellings ==
    { <<>>, <<" ">>, <<"\t">>,
      <<"-", "a">>,
      <<"a", ".", "l", "o", "c", "k">>, <<".", "l", "o", "c", "k">>,
      <<"a", ".", ".", "b">>,
      <<"a", " ", "b">>, <<"a", "~">>, <<"^", "a">>,
      <<"a", ":", "b">>, <<"a", "?">>, <<"*">>,
      <<"a", "[">>, <<"a", "\\", "b">>,
      <<"-", "a", "?", ".", "l", "o", "c", "k">> }

NameSpellings == AcceptedSpellings \cup RejectedSpellings

\* what a command can be given as a branch name
AnyBranchNameArgs == {Join(chars) : chars \in NameSpellings}

SpellingOf == [name \in AnyBranchNameArgs |-> CHOOSE chars \in NameSpellings : Join(chars) = name]

Spelling(name) == SpellingOf[name]

WhiteSpace == {" ", "\t"}

\* String.prototype.trim() leaves the empty string
TrimsToEmpty(chars) == \A i \in 1..Len(chars) : chars[i] \in WhiteSpace

\* String.prototype.startsWith, endsWith and includes
StartsWith(chars, sub) ==
    Len(chars) >= Len(sub) /\ SubSeq(chars, 1, Len(sub)) = sub

EndsWith(chars, sub) ==
    Len(chars) >= Len(sub) /\ SubSeq(chars, Len(chars) - Len(sub) + 1, Len(chars)) = sub

Includes(chars, sub) ==
    \E i \in 1..(Len(chars) - Len(sub) + 1) : SubSeq(chars, i, i + Len(sub) - 1) = sub

validateBranchName_allowsBracket(name) ==
    LET chars == Spelling(name)
    IN  IF chars = <<>> \/ TrimsToEmpty(chars) THEN "Branch name cannot be empty"
        ELSE IF StartsWith(chars, <<"-">>) THEN "Branch name cannot start with a hyphen"
        ELSE IF EndsWith(chars, <<".", "l", "o", "c", "k">>) THEN "Branch name cannot end with .lock"
        ELSE IF Includes(chars, <<".", ".">>) THEN "Branch name cannot contain '..'"
        ELSE IF Includes(chars, <<" ">>) \/ Includes(chars, <<"~">>) \/ Includes(chars, <<"^">>)
             THEN "Branch name cannot contain spaces, ~, or ^"
        ELSE IF Includes(chars, <<":">>) \/ Includes(chars, <<"?">>) \/ Includes(chars, <<"*">>)
             THEN "Branch name cannot contain :, ?, or *"
        ELSE IF Includes(chars, <<"\\">>)
             THEN "Branch name cannot contain [ or \\"
        ELSE ""

\* validateBranchName: the message of the error it throws, "" when it
\* returns
validateBranchName(name) ==
    LET chars == Spelling(name)
    IN  IF chars = <<>> \/ TrimsToEmpty(chars) THEN "Branch name cannot be empty"
        ELSE IF StartsWith(chars, <<"-">>) THEN "Branch name cannot start with a hyphen"
        ELSE IF EndsWith(chars, <<".", "l", "o", "c", "k">>) THEN "Branch name cannot end with .lock"
        ELSE IF Includes(chars, <<".", ".">>) THEN "Branch name cannot contain '..'"
        ELSE IF Includes(chars, <<" ">>) \/ Includes(chars, <<"~">>) \/ Includes(chars, <<"^">>)
             THEN "Branch name cannot contain spaces, ~, or ^"
        ELSE IF Includes(chars, <<":">>) \/ Includes(chars, <<"?">>) \/ Includes(chars, <<"*">>)
             THEN "Branch name cannot contain :, ?, or *"
        ELSE IF Includes(chars, <<"[">>) \/ Includes(chars, <<"\\">>)
             THEN "Branch name cannot contain [ or \\"
        ELSE ""

\* git checkout -b <name>: git itself refuses a ref name with a control
\* character in it
GitAcceptsRef(name) == ~Includes(Spelling(name), <<"\t">>)

\* git show-ref --verify --quiet refs/heads/<branchName>
branchExists(branchName) == branchName \in localBranches

findStackByBranch_baseOnly(cfg, branchName) ==
    IF \E s \in 1..Len(cfg.stacks) : cfg.stacks[s].baseBranch = branchName
    THEN CHOOSE s \in 1..Len(cfg.stacks) :
            /\ cfg.stacks[s].baseBranch = branchName
            /\ \A t \in 1..(s - 1) : cfg.stacks[t].baseBranch # branchName
    ELSE 0

\* the position of the first stack that has branchName as its base or among
\* its branches, 0 when there is none
findStackByBranch(cfg, branchName) ==
    LET Has(s) == \/ cfg.stacks[s].baseBranch = branchName
                  \/ branchName \in Range(cfg.stacks[s].branches)
    IN  IF \E s \in 1..Len(cfg.stacks) : Has(s)
        THEN CHOOSE s \in 1..Len(cfg.stacks) : Has(s) /\ \A t \in 1..(s - 1) : ~Has(t)
        ELSE 0

generateStackName(branchName) == "stack-" \o branchName

InsertAt_atEnd(seq, idx, x) == Append(seq, x)

\* Array.prototype.splice(idx, 0, x) with a 0-based index
InsertAt(seq, idx, x) == SubSeq(seq, 1, idx) \o <<x>> \o SubSeq(seq, idx + 1, Len(seq))

\* gh pr view <branchName> --json number,url answers
getPRForBranch(branchName) == branchName \in BranchNames /\ remote[branchName] # "no-pr"

\* a command runs to its end between the steps of the view, outside a rebase
CliReady == pc = "idle" /\ rebase = <<>> /\ cli.count < MaxCmds

\* the command ends with an error before it has changed anything
CliFails(cmd, error) ==
    /\ cli' = [count |-> cli.count + 1, cmd |-> cmd, error |-> error]
    /\ UNCHANGED <<config, head, localBranches, remote>>

CliDone(cmd) == cli' = [count |-> cli.count + 1, cmd |-> cmd, error |-> ""]

MIN_GIT_VERSION == [major |-> 2, minor |-> 38]

\* What "git --version" answers: an exit code and a line of text, the text
\* given by its parts: the words it starts with, the digits of the first
\* number, whether a dot follows, the digits of the second number, the rest.
GitVersionOut(exitCode, lead, major, dot, minor, rest) ==
    [exitCode |-> exitCode, lead |-> lead, major |-> major, dot |-> dot,
     minor |-> minor, rest |-> rest]

GitVersionOutputs ==
    { GitVersionOut(0, "git version ", major, TRUE, minor, ".1 (Apple Git-135)") :
        major \in {<<1>>, <<2>>, <<3>>, <<0, 2>>},
        minor \in {<<8>>, <<3, 7>>, <<3, 8>>, <<3, 9>>, <<0>>, <<0, 3, 9>>, <<3, 8, 0>>} }
    \cup { GitVersionOut(127, "", <<>>, FALSE, <<>>, ""),
           GitVersionOut(0, "not a version ", <<2>>, TRUE, <<4, 3>>, ""),
           GitVersionOut(0, "git version ", <<>>, TRUE, <<4, 3>>, ""),
           GitVersionOut(0, "git version ", <<2>>, FALSE, <<>>, ""),
           GitVersionOut(0, "git version ", <<2>>, TRUE, <<>>, "x") }

\* the git of a machine that meets the requirement
InstalledGit == GitVersionOut(0, "git version ", <<2>>, TRUE, <<4, 3>>, ".0")

\* parseInt(digits, 10)
RECURSIVE parseInt(_)
parseInt(digits) ==
    IF digits = <<>> THEN 0
    ELSE 10 * parseInt(SubSeq(digits, 1, Len(digits) - 1)) + digits[Len(digits)]

\* versionStr.match(/git version (\d+)\.(\d+)/): <<>> for null
parseGitVersion(out) ==
    IF out.lead = "git version " /\ out.major # <<>> /\ out.dot /\ out.minor # <<>>
    THEN <<[major |-> parseInt(out.major), minor |-> parseInt(out.minor)]>>
    ELSE <<>>

checkGitVersion_minorOnly(out) ==
    IF out.exitCode # 0 THEN "Git is not installed or not in PATH"
    ELSE LET version == parseGitVersion(out)
         IN  IF version = <<>> THEN "Could not parse Git version"
             ELSE IF version[1].minor < MIN_GIT_VERSION.minor
                  THEN "Git version 2.38+ required for --update-refs support. Found: "
                       \o ToString(version[1].major) \o "." \o ToString(version[1].minor)
             ELSE ""

\* checkGitVersion: the message of the error it throws, "" when it returns
checkGitVersion(out) ==
    IF out.exitCode # 0 THEN "Git is not installed or not in PATH"
    ELSE LET version == parseGitVersion(out)
         IN  IF version = <<>> THEN "Could not parse Git version"
             ELSE IF \/ version[1].major < MIN_GIT_VERSION.major
                     \/ /\ version[1].major = MIN_GIT_VERSION.major
                        /\ version[1].minor < MIN_GIT_VERSION.minor
                  THEN "Git version 2.38+ required for --update-refs support. Found: "
                       \o ToString(version[1].major) \o "." \o ToString(version[1].minor)
             ELSE ""

\* init on a machine whose git answers gitVersion: the version check, then
\* the default configuration is written unless the file exists
init(gitVersion) ==
    IF checkGitVersion(gitVersion) # "" THEN CliFails("init", checkGitVersion(gitVersion))
    ELSE IF config # <<>> THEN CliFails("init", "already exists")
    ELSE /\ config' = saveConfig(createDefaultConfig("main"))
         /\ CliDone("init")
         /\ UNCHANGED <<head, localBranches, remote>>

\* stackboi init
InitCmd ==
    /\ CliReady
    /\ init(InstalledGit)
    /\ UNCHANGED <<fnVars, handled, detected, rebase, blocked, commits, appVars, polls, pc, run, hist>>

\* stackboi init, whatever git is installed
InitCmdAnyGit ==
    /\ CliReady
    /\ \E gitVersion \in GitVersionOutputs : init(gitVersion)
    /\ UNCHANGED <<fnVars, handled, detected, rebase, blocked, commits, appVars, polls, pc, run, hist>>

\* newStack with options.branchName and options.baseBranch (<<>> when it is
\* not given)
newStack(branchName, baseOpt) ==
    LET loaded == loadConfig(config)
        baseBranch == IF baseOpt = <<>> THEN getCurrentBranch ELSE baseOpt[1]
        stackName == generateStackName(branchName)
    IN  IF ~loaded.ok THEN CliFails("newStack", loaded.error)
        ELSE IF validateBranchName(branchName) # ""
             THEN CliFails("newStack", validateBranchName(branchName))
        ELSE IF branchExists(branchName) THEN CliFails("newStack", "branch exists")
        ELSE IF findStackByBranch(loaded.value, branchName) # 0
             THEN CliFails("newStack", "already part of a stack")
        ELSE IF \E s \in 1..Len(loaded.value.stacks) : loaded.value.stacks[s].name = stackName
             THEN CliFails("newStack", "stack exists")
        ELSE IF ~GitAcceptsRef(branchName) THEN CliFails("newStack", "git checkout -b failed")
        ELSE /\ localBranches' = localBranches \cup {branchName}
             /\ head' = branchName
             /\ config' = saveConfig([loaded.value EXCEPT !.stacks =
                               Append(@, MkStack(stackName, baseBranch, <<branchName>>))])
             /\ CliDone("newStack")
             /\ UNCHANGED remote

\* stackboi new <name>, on the current branch or on main
NewStack ==
    /\ CliReady
    /\ \E branchName \in BranchNameArgs, baseOpt \in {<<>>, <<"main">>} :
          newStack(branchName, baseOpt)
    /\ UNCHANGED <<fnVars, handled, detected, rebase, blocked, commits, appVars, polls, pc, run, hist>>

\* what newStack can be given as options.baseBranch
BaseBranchArgs == {<<>>, <<"main">>, <<"a">>, <<"b">>}

\* newStack called with any name and any base
NewStackAnyArgs ==
    /\ CliReady
    /\ \E branchName \in AnyBranchNameArgs, baseOpt \in BaseBranchArgs :
          newStack(branchName, baseOpt)
    /\ UNCHANGED <<fnVars, handled, detected, rebase, blocked, commits, appVars, polls, pc, run, hist>>

\* addBranch with options.branchName
addBranch(branchName) ==
    LET loaded == loadConfig(config)
        current == getCurrentBranch
    IN  IF ~loaded.ok THEN CliFails("addBranch", loaded.error)
        ELSE LET s == findStackByBranch(loaded.value, current)
             IN  IF s = 0 THEN CliFails("addBranch", "not part of any stack")
                 ELSE IF validateBranchName(branchName) # ""
                      THEN CliFails("addBranch", validateBranchName(branchName))
                 ELSE IF branchExists(branchName) THEN CliFails("addBranch", "branch exists")
                 ELSE IF findStackByBranch(loaded.value, branchName) # 0
                      THEN CliFails("addBranch", "already part of a stack")
                 ELSE IF ~GitAcceptsRef(branchName)
                      THEN CliFails("addBranch", "git checkout -b failed")
                 ELSE LET idx == IndexOf(loaded.value.stacks[s].branches, current)
                      IN  /\ localBranches' = localBranches \cup {branchName}
                          /\ head' = branchName
                          /\ config' = saveConfig([loaded.value EXCEPT !.stacks[s].branches =
                                            IF idx = -1 THEN <<branchName>> \o @
                                            ELSE InsertAt(@, idx + 1, branchName)])
                          /\ CliDone("addBranch")
                          /\ UNCHANGED remote

\* stackboi add <name>
AddBranch ==
    /\ CliReady
    /\ \E branchName \in BranchNameArgs : addBranch(branchName)
    /\ UNCHANGED <<fnVars, handled, detected, rebase, blocked, commits, appVars, polls, pc, run, hist>>

\* addBranch called with any name
AddBranchAnyArgs ==
    /\ CliReady
    /\ \E branchName \in AnyBranchNameArgs : addBranch(branchName)
    /\ UNCHANGED <<fnVars, handled, detected, rebase, blocked, commits, appVars, polls, pc, run, hist>>

\* createPR with, optionally, options.branchName and options.draft; gh pr
\* create opens the pull request of the checked-out branch, which the
\* platform refuses when that branch is not a tracked one or has one already
CreatePR ==
    /\ CliReady
    /\ \E ghAuthenticated \in BOOLEAN, draft \in BOOLEAN,
          branchOpt \in {<<>>} \cup {<<b>> : b \in BranchNames} :
          LET loaded == loadConfig(config)
              branchName == IF branchOpt = <<>> THEN getCurrentBranch ELSE branchOpt[1]
          IN  IF ~ghAuthenticated THEN CliFails("createPR", "not authenticated")
              ELSE IF ~loaded.ok THEN CliFails("createPR", loaded.error)
              ELSE LET s == findStackByBranch(loaded.value, branchName)
                   IN  IF s = 0 THEN CliFails("createPR", "not part of any stack")
                       ELSE IF branchName \notin Range(loaded.value.stacks[s].branches)
                            THEN CliFails("createPR", "is the base branch")
                       ELSE IF getPRForBranch(branchName) THEN CliFails("createPR", "PR already exists")
                       ELSE IF head \in BranchNames /\ remote[head] = "no-pr"
                            THEN /\ remote' = [remote EXCEPT ![head] = IF draft THEN "draft" ELSE "open"]
                                 /\ cli' = [count |-> cli.count + 1, cmd |-> "createPR",
                                             error |-> IF head = branchName THEN ""
                                                       ELSE "could not retrieve"]
                                 /\ UNCHANGED <<config, head, localBranches>>
                            ELSE CliFails("createPR", "Failed to create PR")
    /\ UNCHANGED <<fnVars, handled, detected, rebase, blocked, commits, appVars, polls, pc, run, hist>>

\* the operator checks out another branch between two commands
UserCheckout ==
    /\ pc = "idle" /\ rebase = <<>> /\ Screen = "tree"
    /\ \E b \in localBranches \ {head} :
          /\ head' = b
          /\ currentBranch' = IF stacks = <<>> THEN currentBranch ELSE b
    /\ UNCHANGED <<fnVars, cli, detected, handled, config, localBranches, rebase, blocked, commits, remote,
                   stacks, mergeNotification, pendingNotification, syncProgress,
                   conflictState, polls, pc, run, hist>>

\* the operator deletes a local branch that is not checked out
UserDeleteBranch ==
    /\ pc = "idle" /\ rebase = <<>> /\ Screen = "tree"
    /\ \E b \in localBranches \ {head, "main"} :
          localBranches' = localBranches \ {b}
    /\ UNCHANGED <<fnVars, cli, detected, handled, config, head, rebase, blocked, commits, remote,
                   appVars, polls, pc, run, hist>>

\* the view is started on the configuration, the open or draft pull
\* request of a tracked branch is merged, and the next poll detects it
ViewMergeDetected ==
    /\ pc = "idle" /\ rebase = <<>> /\ Screen = "tree" /\ hist.syncs < MaxSyncs
    /\ loadConfig(config).ok
    /\ \E b \in Range(AllBranchNames(StacksWithInfo(loadConfig(config).value.stacks,
                          [c \in BranchNames |-> CurrentInfo(c, remote[c])]))) :
          /\ remote[b] \in {"open", "draft"}
          /\ remote' = [remote EXCEPT ![b] = "merged"]
          /\ LET before == StacksWithInfo(loadConfig(config).value.stacks,
                                [c \in BranchNames |-> CurrentInfo(c, remote[c])])
                 result == applyPRStatusUpdates(before,
                               fetchAllPRStatuses(before, TRUE,
                                   [c \in BranchNames |-> ReplyOf(c, remote'[c])]))
             IN  /\ stacks' = result.updated
                 /\ mergeNotification' = <<result.newlyMerged[1]>>
          /\ currentBranch' = getCurrentBranch
          /\ detected' = detected \cup {b}
    /\ UNCHANGED <<fnVars, cli, handled, config, gitVars, pendingNotification, syncProgress,
                   conflictState, polls, pc, run, hist>>

-----------------------------------------------------------------------------
(* Specifications *)

LocalBranchesAtStart == BranchNames \cup {"main", "dev"}

ConfigOf(shape) == [createDefaultConfig("main") EXCEPT !.stacks = shape]

\* no App is running: the state the pure functions are exercised in
NoApp ==
    /\ config = <<createDefaultConfig("main")>>
    /\ head = "main" /\ localBranches = LocalBranchesAtStart
    /\ rebase = <<>> /\ blocked = FALSE /\ commits = 1
    /\ remote = [b \in BranchNames |-> "no-pr"]
    /\ stacks = <<>> /\ currentBranch = "main"
    /\ mergeNotification = <<>> /\ pendingNotification = <<>>
    /\ syncProgress = <<>> /\ conflictState = <<>>
    /\ polls = <<>> /\ pc = "idle" /\ run = NoRun /\ hist = NoHist
    /\ handled = {} /\ cli = NoCli /\ detected = {}

appState == <<handled, cli, detected, config, gitVars, remote, appVars, polls, pc, run, hist>>

\* the stack the App is started on
AppStacks == << MkStack("s1", "main", <<"a", "b">>) >>

\* the App after its initial load on the base branch of a clean working
\* tree, both tracked branches having an open pull request
Init ==
    /\ fnIn = <<>> /\ fnOut = <<>>
    /\ config = <<ConfigOf(AppStacks)>>
    /\ head = "main"
    /\ localBranches = LocalBranchesAtStart
    /\ rebase = <<>>
    /\ blocked = FALSE
    /\ commits = MaxCommits
    /\ remote = [b \in BranchNames |-> "open"]
    /\ stacks = StacksWithInfo(config[1].stacks, [b \in BranchNames |-> CurrentInfo(b, remote[b])])
    /\ currentBranch = head
    /\ mergeNotification = <<>> /\ pendingNotification = <<>>
    /\ syncProgress = <<>> /\ conflictState = <<>>
    /\ polls = <<>> /\ pc = "idle" /\ run = NoRun /\ hist = NoHist
    /\ handled = {} /\ cli = NoCli /\ detected = {}

SyncNext ==
    \/ HandleSync
    \/ SyncFetch
    \/ SyncLoad
    \/ SyncShowCurrent
    \/ SyncCheckoutTip
    \/ SyncRebase
    \/ SyncFirstQuery
    \/ SyncFirstContinue
    \/ SyncSecondQuery
    \/ SyncLoopContinue
    \/ SyncLoopQuery
    \/ SyncAllConflicts
    \/ HandleSyncConflictState
    \/ SyncNoResolutionAbort
    \/ SyncFailureAbort
    \/ SyncErrorCheckout
    \/ SyncRestore
    \/ SyncSave
    \/ SyncDeleteBranch
    \/ HandleSyncProgressDismiss
    \/ HandleAbortRebase

Next ==
    \/ SyncNext
    \/ HandleDismissMergeNotification
    \/ PollTick
    \/ PollDone
    \/ RemoteMerge

Spec == Init /\ [][Next]_vars

\* the timer keeps ticking, every fetch is answered, the operator answers
\* every overlay and every step of a run is taken
Fairness ==
    /\ WF_vars(PollTick)
    /\ WF_vars(PollDone)
    /\ WF_vars(SyncNext \/ HandleDismissMergeNotification)

SpecLive == Init /\ [][Next]_vars /\ Fairness

\* the App showing the notification of a merge that a poll has just
\* detected: every tracked branch had an open pull request and one of them
\* has been merged; the metadata file the App was loaded from is still
\* there, or has been removed from the working tree since; one of the
\* tracked branches may have been deleted locally (git branch -D), though
\* not the one checked out
InitSync ==
    /\ fnIn = <<>> /\ fnOut = <<>>
    /\ \E shape \in StackShapes, removed \in BOOLEAN :
          /\ config = IF removed THEN <<>> ELSE <<ConfigOf(shape)>>
          /\ \E b \in BranchNames :
                remote = [c \in BranchNames |-> IF c = b THEN "merged" ELSE "open"]
          /\ LET before == StacksWithInfo(shape, [c \in BranchNames |-> CurrentInfo(c, "open")])
                 result == applyPRStatusUpdates(before,
                               fetchAllPRStatuses(before, TRUE, [c \in BranchNames |-> ReplyOf(c, remote[c])]))
             IN  /\ stacks = result.updated
                 /\ mergeNotification = <<result.newlyMerged[1]>>
                 /\ detected = {result.newlyMerged[1].branchName}
    /\ localBranches \in {LocalBranchesAtStart} \cup
                            {LocalBranchesAtStart \ {b} : b \in BranchNames}
    /\ head \in (BranchNames \cup {"main"}) \cap localBranches
    /\ rebase = <<>>
    /\ blocked \in BOOLEAN
    /\ commits \in 1..MaxCommits
    /\ currentBranch = head
    /\ pendingNotification = <<>>
    /\ syncProgress = <<>> /\ conflictState = <<>>
    /\ polls = <<>> /\ pc = "idle" /\ run = NoRun /\ hist = NoHist
    /\ handled = {} /\ cli = NoCli

SpecSync == InitSync /\ [][SyncNext]_vars

\* the operator answers the notification of a detected merge with "n"
SpecDismiss == InitSync /\ [][HandleDismissMergeNotification]_vars

\* every await of a run is answered and the operator answers every overlay
SpecSyncLive == InitSync /\ [][SyncNext]_vars /\ WF_vars(SyncNext)

\* a repository on its default branch in which stackboi has not been
\* initialised; a rebase in it replays one commit
InitCli ==
    /\ fnIn = <<>> /\ fnOut = <<>>
    /\ config = <<>>
    /\ head = "main" /\ localBranches = {"main"}
    /\ rebase = <<>> /\ blocked = FALSE /\ commits = 1
    /\ remote = [b \in BranchNames |-> "no-pr"]
    /\ stacks = <<>> /\ currentBranch = ""
    /\ mergeNotification = <<>> /\ pendingNotification = <<>>
    /\ syncProgress = <<>> /\ conflictState = <<>>
    /\ polls = <<>> /\ pc = "idle" /\ run = NoRun /\ hist = NoHist
    /\ handled = {} /\ cli = NoCli /\ detected = {}

CliNext ==
    \/ InitCmd
    \/ NewStack
    \/ AddBranch
    \/ CreatePR
    \/ UserCheckout
    \/ UserDeleteBranch
    \/ ViewMergeDetected
    \/ SyncNext

SpecCli == InitCli /\ [][CliNext]_vars

\* the commands on their own, called with any argument on any machine
CmdNext ==
    \/ InitCmdAnyGit
    \/ NewStackAnyArgs
    \/ AddBranchAnyArgs
    \/ UserCheckout

SpecCmd == InitCli /\ [][CmdNext]_vars

-----------------------------------------------------------------------------
(* The pure functions on their own *)

InitFn ==
    /\ fnOut = <<>>
    /\ NoApp
    /\ \/ \E st \in StackInputs, b \in BranchNameInputs :
              fnIn = [fn |-> "getParentBranch", stack |-> st, branchName |-> b]
       \/ \E st \in StackInputs, b \in BranchNameInputs :
              fnIn = [fn |-> "getStackPosition", stack |-> st, branchName |-> b]
       \/ \E re, cur, dirty \in BOOLEAN, l, r \in Commits :
              fnIn = [fn |-> "getBranchSyncStatus", remoteExists |-> re, isCurrent |-> cur,
                      porcelainDirty |-> dirty, localHash |-> l, remoteHash |-> r]
       \/ \E text \in ConfigTexts :
              fnIn = [fn |-> "saveLoad", text |-> text]
       \/ \E st \in StacksAfterSync, affected \in AffectedBranchInputs,
             auth \in BOOLEAN, pr \in PRAnswers :
              fnIn = [fn |-> "updatePRMetadataAfterSync", stack |-> st,
                      affectedBranches |-> affected, ghAuthenticated |-> auth, pr |-> pr]
       \/ \E shape \in StackShapes, auth \in BOOLEAN,
             kinds \in [BranchNames -> {"no-pr", "bad", "open", "draft", "merged"}] :
              fnIn = [fn |-> "fetchAllPRStatuses",
                      stacks |-> StacksWithInfo(shape, [b \in BranchNames |-> PreviousInfo(b, "open")]),
                      ghAuthenticated |-> auth,
                      replies |-> [b \in BranchNames |->
                                     IF kinds[b] = "bad" THEN BadReply ELSE ReplyOf(b, kinds[b])]]

InitDetect ==
    /\ fnOut = <<>>
    /\ NoApp
    /\ \E shape \in StackShapes :
       \E prev \in [BranchNames -> PRStatuses], kinds \in [BranchNames -> ReplyKinds] :
           fnIn = [fn      |-> "applyPRStatusUpdates",
                   stacks  |-> StacksWithInfo(shape, [b \in BranchNames |-> PreviousInfo(b, prev[b])]),
                   replies |-> [b \in BranchNames |-> ReplyOf(b, kinds[b])]]

CallGetParentBranch ==
    /\ fnIn.fn = "getParentBranch" /\ fnOut = <<>>
    /\ fnOut' = <<getParentBranch(fnIn.stack, fnIn.branchName)>>
    /\ UNCHANGED <<fnIn, appState>>

\* the position of a branch and the label createPR puts on its pull request
CallGetStackPosition ==
    /\ fnIn.fn = "getStackPosition" /\ fnOut = <<>>
    /\ LET pos == getStackPosition(fnIn.stack, fnIn.branchName)
       IN  fnOut' = <<[position |-> pos.position, total |-> pos.total,
                       label |-> ensureStackLabel(pos.position, pos.total)]>>
    /\ UNCHANGED <<fnIn, appState>>

CallGetBranchSyncStatus ==
    /\ fnIn.fn = "getBranchSyncStatus" /\ fnOut = <<>>
    /\ fnOut' = <<getBranchSyncStatus(fnIn.remoteExists, fnIn.isCurrent, fnIn.porcelainDirty,
                                      fnIn.localHash, fnIn.remoteHash)>>
    /\ UNCHANGED <<fnIn, appState>>

\* one poll cycle's computation: fetch the statuses, then apply them
CallApplyPRStatusUpdates ==
    /\ fnIn.fn = "applyPRStatusUpdates" /\ fnOut = <<>>
    /\ fnOut' = <<applyPRStatusUpdates(fnIn.stacks,
                      fetchAllPRStatuses(fnIn.stacks, TRUE, fnIn.replies))>>
    /\ UNCHANGED <<fnIn, appState>>

\* the fetch of one poll cycle on its own, with any answer of the client
CallFetchAllPRStatuses ==
    /\ fnIn.fn = "fetchAllPRStatuses" /\ fnOut = <<>>
    /\ fnOut' = <<fetchAllPRStatuses(fnIn.stacks, fnIn.ghAuthenticated, fnIn.replies)>>
    /\ UNCHANGED <<fnIn, appState>>

\* saveConfig(gitRoot, await loadConfig(gitRoot)) on an existing file
CallSaveLoad ==
    /\ fnIn.fn = "saveLoad" /\ fnOut = <<>>
    /\ fnOut' = <<writeJson(fileJson(fnIn.text))>>
    /\ UNCHANGED <<fnIn, appState>>

\* the platform answers alike for every affected branch
CallUpdatePRMetadataAfterSync ==
    /\ fnIn.fn = "updatePRMetadataAfterSync" /\ fnOut = <<>>
    /\ fnOut' = <<updatePRMetadataAfterSync(fnIn.stack, fnIn.affectedBranches,
                       fnIn.ghAuthenticated, [b \in BranchNames |-> fnIn.pr])>>
    /\ UNCHANGED <<fnIn, appState>>

NextFn ==
    \/ CallUpdatePRMetadataAfterSync
    \/ CallFetchAllPRStatuses
    \/ CallGetParentBranch
    \/ CallGetStackPosition
    \/ CallGetBranchSyncStatus
    \/ CallSaveLoad

SpecFn == InitFn /\ [][NextFn]_vars

NextDetect == CallApplyPRStatusUpdates

SpecDetect == InitDetect /\ [][NextDetect]_vars

-----------------------------------------------------------------------------
(* Properties of the merge detector (SpecDetect) *)

Called(fn) == fnIn.fn = fn /\ fnOut # <<>>

\* the events of a result that name branch b of stack st
EventsFor(result, stName, b) ==
    {k \in 1..Len(result.newlyMerged) :
        result.newlyMerged[k].branchName = b /\ result.newlyMerged[k].stackName = stName}

\* C4: applyPRStatusUpdates emits a merge event for a branch if and only if
\* the branch's previous status is open or draft and its newly fetched
\* status is merged; nothing is emitted when the previous status is merged,
\* closed or none.
C4_MergeEventIffTransition ==
    Called("applyPRStatusUpdates") =>
        \A s \in 1..Len(fnIn.stacks) : \A i \in 1..Len(fnIn.stacks[s].branches) :
            LET prev   == fnIn.stacks[s].branches[i]
                now    == getBranchPRInfo(fnIn.replies[prev.name], TRUE)
                events == EventsFor(fnOut[1], fnIn.stacks[s].stack.name, prev.name)
            IN  /\ (events # {}) <=> (prev.prStatus \in {"open", "draft"} /\ now.prStatus = "merged")
                /\ Cardinality(events) <= 1

\* an open branch and an already merged branch are both reported merged:
\* the first fires, the second does not
C4_Witness ==
    /\ Called("applyPRStatusUpdates")
    /\ Len(fnOut[1].newlyMerged) = 1
    /\ \E s \in 1..Len(fnIn.stacks) : \E i, j \in 1..Len(fnIn.stacks[s].branches) :
          /\ fnIn.stacks[s].branches[i].prStatus = "open"
          /\ fnIn.stacks[s].branches[j].prStatus = "merged"
          /\ fnIn.replies[fnIn.stacks[s].branches[i].name].state = "MERGED"
          /\ fnIn.replies[fnIn.stacks[s].branches[j].name].state = "MERGED"

\* the stack of the snapshot that an event names
StackNamed(stks, name) ==
    stks[CHOOSE s \in 1..Len(stks) : stks[s].stack.name = name].stack

\* C6: the childBranches of every emitted event are exactly the branches of
\* the event's own stack that come after the merged branch, in order; none
\* of them belongs to another stack, and the tip's event has no children.
C6_ChildBranchesAreSuffix ==
    Called("applyPRStatusUpdates") =>
        \A k \in 1..Len(fnOut[1].newlyMerged) :
            LET e   == fnOut[1].newlyMerged[k]
                st  == StackNamed(fnIn.stacks, e.stackName)
                idx == IndexOf(st.branches, e.branchName)
            IN  /\ idx >= 0
                /\ Len(e.childBranches) = Len(st.branches) - (idx + 1)
                /\ \A n \in 1..Len(e.childBranches) : e.childBranches[n] = st.branches[idx + 1 + n]
                /\ \A s \in 1..Len(fnIn.stacks) :
                      fnIn.stacks[s].stack.name # e.stackName =>
                          Range(e.childBranches) \cap Range(fnIn.stacks[s].stack.branches) = {}
                /\ (idx + 1 = Len(st.branches)) => e.childBranches = <<>>

\* one poll reports both the first branch of a three-branch stack and the
\* tip of a stack merged
C6_Witness ==
    /\ Called("applyPRStatusUpdates")
    /\ \E k, m \in 1..Len(fnOut[1].newlyMerged) :
          /\ Len(fnOut[1].newlyMerged[k].childBranches) = 2
          /\ fnOut[1].newlyMerged[m].childBranches = <<>>

-----------------------------------------------------------------------------
(* Properties of the classifier and of the stack arithmetic (SpecFn) *)

IsAncestor(x, y) == x \in Ancestors(y)

C37_LocalChangesOutrankDivergence ==
    Called("getBranchSyncStatus") =>
        /\ (fnIn.isCurrent /\ fnIn.porcelainDirty) => fnOut[1] = "needs-push"
        /\ ~fnIn.isCurrent =>
              fnOut[1] = IF ~fnIn.remoteExists THEN "needs-push"
                         ELSE IF fnIn.localHash = fnIn.remoteHash THEN "up-to-date"
                         ELSE IF fnIn.remoteHash \in Ancestors(fnIn.localHash) THEN "needs-push"
                         ELSE IF fnIn.localHash \in Ancestors(fnIn.remoteHash) THEN "needs-rebase"
                         ELSE "conflicts"

\* the checked-out branch is behind its upstream and has uncommitted
\* modifications
C37_Witness ==
    /\ Called("getBranchSyncStatus")
    /\ fnIn.isCurrent /\ fnIn.porcelainDirty /\ fnIn.remoteExists
    /\ fnIn.localHash = "c2" /\ fnIn.remoteHash = "c4"
    /\ fnOut[1] = "needs-push"

\* C9: the parent of branches[i] is branches[i-1] for i > 0 and the base
\* branch for i = 0; a branch that is not in the stack gets the base branch.
C9_ParentIsPredecessor ==
    Called("getParentBranch") =>
        LET bs == fnIn.stack.branches
        IN  /\ \A i \in 1..Len(bs) :
                  fnIn.branchName = bs[i] =>
                      fnOut[1] = IF i > 1 THEN bs[i - 1] ELSE fnIn.stack.baseBranch
            /\ fnIn.branchName \notin Range(bs) => fnOut[1] = fnIn.stack.baseBranch

C9_Witness ==
    /\ Called("getParentBranch")
    /\ fnIn.stack.branches = <<"a", "b", "c">> /\ fnIn.branchName = "c"
    /\ fnOut[1] = "b"

RECURSIVE SumOfPositions(_, _)
SumOfPositions(stack, i) ==
    IF i > Len(stack.branches) THEN 0
    ELSE getStackPosition(stack, stack.branches[i]).position + SumOfPositions(stack, i + 1)

\* C10: the branch at index i of a stack of length n has position (i+1, n)
\* and label stack:{i+1}/{n}; the positions of a stack's branches sum to
\* n*(n+1)/2; a branch that is not in the stack has position 0 of n.
C10_PositionAndLabel ==
    Called("getStackPosition") =>
        LET bs == fnIn.stack.branches
            n  == Len(bs)
        IN  /\ fnOut[1].total = n
            /\ \A p \in 1..n :
                  fnIn.branchName = bs[p] =>
                      /\ fnOut[1].position = p
                      /\ fnOut[1].label = "stack:" \o ToString(p) \o "/" \o ToString(n)
            /\ fnIn.branchName \notin Range(bs) => fnOut[1].position = 0
            /\ 2 * SumOfPositions(fnIn.stack, 1) = n * (n + 1)

C10_Witness ==
    /\ Called("getStackPosition")
    /\ fnIn.stack.branches = <<"b", "a", "c">> /\ fnIn.branchName = "a"
    /\ fnOut[1].label = "stack:2/3"

\* the base retarget of the i-th affected branch was issued and failed
BaseRetargetFailed(i) ==
    /\ "base" \in Range(fnOut[1][i].calls)
    /\ ~fnIn.pr.baseEditOk

\* C18: for a branch that has a pull request the label replacement and the
\* description rewrite are issued whatever the outcome of the other edits,
\* the base retarget included.
C18_SubOperationsIndependent ==
    (Called("updatePRMetadataAfterSync") /\ fnIn.ghAuthenticated /\ fnIn.pr.exists) =>
        \A i \in 1..Len(fnOut[1]) :
            /\ "add-label" \in Range(fnOut[1][i].calls)
            /\ "body" \in Range(fnOut[1][i].calls)

\* C19 as stated: a result has success = false only if the base retarget of
\* its branch was issued and failed.
C19_FailureOnlyOnBaseRetarget ==
    Called("updatePRMetadataAfterSync") =>
        \A i \in 1..Len(fnOut[1]) :
            ~fnOut[1][i].result.success => BaseRetargetFailed(i)

\* C19, amended: a result has success = false exactly when the client is
\* not authenticated or the base retarget of its branch was issued and
\* failed; a failed label or description edit, unreadable details and a
\* missing pull request leave success = true.
C19_FailureOnlyOnBaseRetargetOrAuth ==
    Called("updatePRMetadataAfterSync") =>
        \A i \in 1..Len(fnOut[1]) :
            ~fnOut[1][i].result.success <=> (~fnIn.ghAuthenticated \/ BaseRetargetFailed(i))

\* label and description edits both fail after a successful retarget, and
\* the result still says success
C19_Witness ==
    /\ Called("updatePRMetadataAfterSync")
    /\ fnIn.ghAuthenticated /\ fnIn.pr.exists
    /\ ~fnIn.pr.labelEditOk /\ ~fnIn.pr.bodyEditOk
    /\ fnOut[1][1].result.success /\ fnOut[1][1].result.updatedBase
    /\ ~fnOut[1][1].result.updatedLabel /\ ~fnOut[1][1].result.updatedBody

\* C34: the base of a pull request is edited only if the branch that
\* precedes its branch in the stack (the base branch of the stack for the
\* first one) differs from the base the pull request has; when they are the
\* same no base edit is issued and updatedBase is false, and updatedBase is
\* true only for a base edit that was issued and went through.
C34_RetargetOnlyIfParentChanged ==
    Called("updatePRMetadataAfterSync") =>
        \A i \in 1..Len(fnOut[1]) :
            LET branches == fnIn.stack.branches
                branch   == fnIn.affectedBranches[i]
                parent   == IF \E k \in 2..Len(branches) : branches[k] = branch
                            THEN branches[(CHOOSE k \in 2..Len(branches) : branches[k] = branch) - 1]
                            ELSE fnIn.stack.baseBranch
                edited   == "base" \in Range(fnOut[1][i].calls)
            IN  /\ edited => (fnIn.ghAuthenticated /\ fnIn.pr.exists /\ fnIn.pr.baseRefName # parent)
                /\ fnIn.ghAuthenticated =>
                      (fnOut[1][i].result.updatedBase <=> (edited /\ fnIn.pr.baseEditOk))

\* two pull requests based on main: the one of the first branch is left
\* alone, the one of the second is retargeted to the first branch
C34_Witness ==
    /\ Called("updatePRMetadataAfterSync") /\ fnIn.ghAuthenticated
    /\ fnIn.stack.branches = <<"b", "c">> /\ fnIn.affectedBranches = <<"b", "c">>
    /\ fnIn.pr.exists /\ fnIn.pr.detailsOk /\ fnIn.pr.baseRefName = "main"
    /\ "base" \notin Range(fnOut[1][1].calls) /\ ~fnOut[1][1].result.updatedBase
    /\ "body" \in Range(fnOut[1][1].calls)
    /\ fnOut[1][2].result.updatedBase

\* C35 as stated: there is one result per affected branch, in the order of
\* the input, and for every branch that has a pull request an edit was
\* issued, whatever failed for the other branches.
C35_EveryBranchAttempted ==
    Called("updatePRMetadataAfterSync") =>
        /\ Len(fnOut[1]) = Len(fnIn.affectedBranches)
        /\ \A i \in 1..Len(fnOut[1]) :
              /\ fnOut[1][i].result.branchName = fnIn.affectedBranches[i]
              /\ fnIn.pr.exists => fnOut[1][i].calls # <<>>

\* C35, amended: there is one result per affected branch, in the order of
\* the input; with an authenticated client an edit is issued for every
\* branch that has a pull request, whatever failed for the other branches,
\* and with an unauthenticated client none is issued for any branch.
C35_EveryBranchAttemptedWhenAuthenticated ==
    Called("updatePRMetadataAfterSync") =>
        /\ Len(fnOut[1]) = Len(fnIn.affectedBranches)
        /\ \A i \in 1..Len(fnOut[1]) :
              /\ fnOut[1][i].result.branchName = fnIn.affectedBranches[i]
              /\ fnOut[1][i].calls # <<>> <=> (fnIn.ghAuthenticated /\ fnIn.pr.exists)

\* the retarget of the first branch has failed and the pull request of the
\* second has its label and description rewritten all the same
C35_Witness ==
    /\ Called("updatePRMetadataAfterSync") /\ fnIn.ghAuthenticated
    /\ fnIn.affectedBranches = <<"b", "c">>
    /\ ~fnOut[1][1].result.success /\ fnOut[1][1].calls = <<"base">>
    /\ fnOut[1][2].result.success
    /\ "add-label" \in Range(fnOut[1][2].calls) /\ "body" \in Range(fnOut[1][2].calls)

\* C36: the fetch returns an entry for every branch of every stack and for
\* no other name; the entry of a branch is {prNumber: null, prStatus: none}
\* when the client is not authenticated, when gh pr view fails for the
\* branch (no pull request) and when its reply cannot be parsed, whatever
\* the replies for the other branches are.
C36_FetchCoversEveryBranch ==
    Called("fetchAllPRStatuses") =>
        /\ DOMAIN fnOut[1] =
              UNION {{fnIn.stacks[s].branches[i].name : i \in 1..Len(fnIn.stacks[s].branches)} :
                        s \in 1..Len(fnIn.stacks)}
        /\ \A b \in DOMAIN fnOut[1] :
              (\/ ~fnIn.ghAuthenticated
               \/ fnIn.replies[b].exitCode # 0
               \/ fnIn.replies[b].json = "bad")
                  => fnOut[1][b] = [prNumber |-> NULL, prStatus |-> "none"]

\* one branch has no pull request, the reply for another cannot be parsed,
\* and the third is reported with its merged pull request
C36_Witness ==
    /\ Called("fetchAllPRStatuses") /\ fnIn.ghAuthenticated
    /\ Len(fnIn.stacks) = 2
    /\ fnIn.replies["a"] = NoPRReply /\ fnIn.replies["b"] = BadReply
    /\ fnOut[1]["a"].prStatus = "none" /\ fnOut[1]["b"].prNumber = NULL
    /\ fnOut[1]["c"] = [prNumber |-> 13, prStatus |-> "merged"]

\* C11: loading an existing metadata file and saving what was loaded leaves
\* the version, the stacks (names, base branches, branch order) and the
\* settings the file holds as they were, and saving a second time rewrites
\* the same text.
C11_SaveLoadKeepsSchemaFields ==
    Called("saveLoad") =>
        /\ SchemaFields(fileJson(fnOut[1])) = SchemaFields(fileJson(fnIn.text))
        /\ writeJson(fileJson(fnOut[1])) = fnOut[1]

\* a hand-edited file with two stacks: the text is rewritten, the fields stay
C11_Witness ==
    /\ Called("saveLoad")
    /\ fnIn.text.layout = "compact"
    /\ fnOut[1] # fnIn.text
    /\ Len(SchemaFields(fileJson(fnOut[1])).stacks) = 2
    /\ SchemaFields(fileJson(fnOut[1])).settings.pollIntervalMs = 30000

-----------------------------------------------------------------------------
(* Properties of the commands (SpecCli) *)

\* C12: while there is no metadata file loadConfig fails with ConfigMissing,
\* and a newStack, addBranch or createPR run in that state creates no
\* branch, no pull request and no metadata file: it ends with that error
\* (createPR possibly earlier, on a missing authentication).
C12_MissingConfigCreatesNothing ==
    [][(config = <<>> /\ cli'.count # cli.count /\ cli'.cmd # "init") =>
          /\ ~loadConfig(config).ok /\ loadConfig(config).error = "ConfigMissing"
          /\ localBranches' = localBranches /\ head' = head
          /\ remote' = remote
          /\ config' = <<>>
          /\ \/ cli'.error = "ConfigMissing"
             \/ cli'.cmd = "createPR" /\ cli'.error = "not authenticated"]_vars

\* createPR has just failed on the missing file, after another command did
C12_Witness ==
    /\ config = <<>>
    /\ cli.count >= 2 /\ cli.cmd = "createPR" /\ cli.error = "ConfigMissing"
    /\ localBranches = {"main"}

\* the branches of all stacks of a configuration, in order
RECURSIVE AllConfigBranches(_)
AllConfigBranches(stackSeq) ==
    IF stackSeq = <<>> THEN <<>>
    ELSE stackSeq[1].branches \o AllConfigBranches(Tail(stackSeq))

\* C20: whatever commands and sync runs, successful or failed, have been
\* run since the repository was initialised, no branch name is listed twice
\* in the persisted stacks, neither in two stacks nor twice in one.
C20_BranchInAtMostOneStack ==
    config # <<>> => NoDup(AllConfigBranches(config[1].stacks))

\* a sync run has removed the merged branch of one stack and a second
\* stack has been created since
C20_Witness ==
    /\ config # <<>>
    /\ hist.result = "success"
    /\ cli.cmd = "newStack" /\ cli.error = ""
    /\ Len(config[1].stacks) = 2
    /\ config[1].stacks[1].branches = <<>>

-----------------------------------------------------------------------------
(* Properties of the commands called with any argument (SpecCmd) *)

\* C21: whatever newStack and addBranch calls have been made, no stack of
\* the persisted configuration has its base branch among its own branches.
C21_BaseBranchNotInBranches ==
    config # <<>> =>
        \A s \in 1..Len(config[1].stacks) :
            config[1].stacks[s].baseBranch \notin Range(config[1].stacks[s].branches)

\* a command of the given name has just run to its end without an error
Succeeded(cmd) == cli'.count = cli.count + 1 /\ cli'.cmd = cmd /\ cli'.error = ""

\* C22: a successful addBranch puts the new branch right after the branch
\* that was checked out in that branch's stack (first when the checked-out
\* branch is the stack's base and not one of its branches), keeps the
\* branches that were there in their order, leaves every other stack as it
\* was, and the new branch's parent is the branch that was checked out.
C22_AddBranchInsertsAfterCurrent ==
    [][Succeeded("addBranch") =>
          LET s      == findStackByBranch(config[1], head)
              before == config[1].stacks[s].branches
              after  == config'[1].stacks[s].branches
              pos    == IndexOf(after, head')
          IN  /\ head' \notin Range(before)
              /\ pos = IF head \in Range(before) THEN IndexOf(before, head) + 1 ELSE 0
              /\ RemoveAt(after, pos) = before
              /\ getParentBranch(config'[1].stacks[s], head') = head
              /\ Len(config'[1].stacks) = Len(config[1].stacks)
              /\ \A t \in 1..Len(config[1].stacks) :
                    t # s => config'[1].stacks[t] = config[1].stacks[t]]_vars

\* a branch has just been added in the middle of a stack
C22_Witness ==
    /\ cli.cmd = "addBranch" /\ cli.error = ""
    /\ config # <<>> /\ Len(config[1].stacks) = 1
    /\ config[1].stacks[1].branches = <<"a", "c", "b">>
    /\ head = "c"

\* the names the rules of git reject, as a reader would list them
BreaksANamingRule(chars) ==
    \/ \A i \in 1..Len(chars) : chars[i] \in WhiteSpace
    \/ Len(chars) > 0 /\ chars[1] = "-"
    \/ Len(chars) >= 5 /\ Join(SubSeq(chars, Len(chars) - 4, Len(chars))) = ".lock"
    \/ \E i \in 1..(Len(chars) - 1) : chars[i] = "." /\ chars[i + 1] = "."
    \/ Range(chars) \cap {" ", "~", "^", ":", "?", "*", "[", "\\"} # {}

NamesBreakingARule == {Join(chars) : chars \in {cs \in NameSpellings : BreaksANamingRule(cs)}}

\* validateBranchName throws for the names that break a rule and for no other
ValidateFollowsTheRules ==
    \A name \in AnyBranchNameArgs :
        (validateBranchName(name) # "") <=> (name \in NamesBreakingARule)

\* C23: validateBranchName throws for a name exactly when the name is empty
\* or only white space, starts with a hyphen, ends with .lock, contains
\* '..' or contains one of space ~ ^ : ? * [ and backslash; and every step
\* either runs no command, or ends with an error, having created no branch,
\* checked out nothing and left the metadata as it was, or is not a newStack
\* or addBranch call with such a name.
C23_RejectedNamesChangeNothing ==
    [][/\ ValidateFollowsTheRules
       /\ \/ cli'.count = cli.count
          \/ /\ cli'.error # ""
             /\ localBranches' = localBranches
             /\ head' = head
             /\ config' = config
          \/ \A name \in NamesBreakingARule :
                /\ ~addBranch(name)
                /\ \A baseOpt \in BaseBranchArgs : ~newStack(name, baseOpt)]_vars

\* addBranch has just refused a name on a branch of a stack, and the stack
\* is as the newStack before it left it
C23_Witness ==
    /\ cli.cmd = "addBranch" /\ cli.error = "Branch name cannot contain [ or \\"
    /\ config # <<>> /\ Len(config[1].stacks) = 1
    /\ config[1].stacks[1].branches = <<"a.b">>
    /\ localBranches = {"main", "a.b"}

\* the number a sequence of decimal digits spells, leading zeros or not
RECURSIVE NumberSpelled(_)
NumberSpelled(digits) ==
    IF digits = <<>> THEN 0
    ELSE digits[1] * 10 ^ (Len(digits) - 1) + NumberSpelled(Tail(digits))

\* git answered with a version, and the version is 2.38 or higher
MeetsRequirement(out) ==
    /\ out.exitCode = 0
    /\ out.lead = "git version " /\ out.major # <<>> /\ out.dot /\ out.minor # <<>>
    /\ \/ NumberSpelled(out.major) > 2
       \/ NumberSpelled(out.major) = 2 /\ NumberSpelled(out.minor) >= 38

\* checkGitVersion returns for the answers that meet the requirement and
\* throws for every other
CheckGitVersionFollowsRequirement ==
    \A out \in GitVersionOutputs : (checkGitVersion(out) = "") <=> MeetsRequirement(out)

\* C24: checkGitVersion accepts what git --version answers exactly when a
\* version (major, minor) can be read from it and major > 2, or major = 2
\* and minor >= 38; and every step either runs no command, or leaves the
\* metadata file as it was, or is not an init on a git that is refused.
C24_OldGitWritesNothing ==
    [][/\ CheckGitVersionFollowsRequirement
       /\ \/ cli'.count = cli.count
          \/ cli'.error # "" /\ config' = config
          \/ \A out \in GitVersionOutputs : MeetsRequirement(out) \/ ~init(out)]_vars

\* init has just refused git 2.8 in a repository that has no metadata file
C24_Witness ==
    /\ cli.cmd = "init"
    /\ cli.error = "Git version 2.38+ required for --update-refs support. Found: 2.8"
    /\ config = <<>>

-----------------------------------------------------------------------------
(* Properties of the sync engine (SpecSync) *)

RunEnded == hist.syncs > 0 /\ pc = "idle" /\ hist.result # "none"

\* C1: after a run that ended with unresolved conflicts has been aborted,
\* the branch checked out is the branch that was checked out when the run
\* began.
C1_AbortRestoresOriginalBranch ==
    (hist.result = "unresolved" /\ hist.aborted) => head = hist.startHead

\* C2: the persisted configuration differs from what it was when the run
\* began only once the run has reached Step 4 on its way to success; a run
\* that ended in error or with unresolved conflicts, aborted or not, has
\* left it as it was.
C2_MetadataChangesOnlyOnSuccess ==
    hist.syncs > 0 =>
        /\ config # hist.startConfig =>
              (hist.result = "success" \/ (hist.result = "none" /\ pc = "deleteBranch"))
        /\ hist.result \in {"error", "unresolved"} => config = hist.startConfig

\* an aborted run and the configuration it started with
C2_Witness ==
    /\ hist.result = "unresolved" /\ hist.aborted
    /\ config = hist.startConfig
    /\ hist.conflicts >= 2

C7_NoChildrenSkipsRebase ==
    (hist.syncs > 0 /\ run.notification # <<>> /\ Children = <<>>) =>
        /\ Range(hist.log) \cap {"checkout", "rebase", "add", "continue", "abort"} = {}
        /\ Range(hist.progress) \cap {"rebasing", "checking-conflicts"} = {}
        /\ RunEnded =>
              \/ hist.result = "error" /\ hist.log = <<"fetch">>
              \/ /\ hist.result = "success"
                 /\ hist.log = <<"fetch", "loadConfig", "saveConfig", "branch-d">>
                 /\ hist.progress = <<"fetching", "success">>
                 /\ LET st == config[1].stacks[FindStack(config[1], run.notification[1].stackName)]
                    IN  Merged \notin Range(st.branches)

\* the tip of a stack of three was merged and the run has succeeded
C7_Witness ==
    /\ RunEnded /\ hist.result = "success"
    /\ run.notification # <<>> /\ Children = <<>>
    /\ Len(hist.startConfig[1].stacks[1].branches) = 3
    /\ Merged = "c"

\* C13: whatever the external calls of a run answer, performSync ends by
\* returning success, unresolved conflicts or an error to handleSync; it
\* never throws.
C13_NeverThrows ==
    /\ hist.result \in {"none", "success", "error", "unresolved"}
    /\ pc # "thrown"

\* the state a returned run has ended in
FinalState ==
    CASE hist.result = "success"    -> "success"
      [] hist.result = "error"      -> "error"
      [] hist.result = "unresolved" -> "awaiting-user"

\* C14: the last snapshot performSync has passed to onProgress when it
\* returns carries the state the run ended in: success, error, or
\* awaiting-user when it returns unresolved conflicts.
C14_LastSnapshotIsFinalState ==
    hist.result \in {"success", "error", "unresolved"} =>
        /\ hist.progress # <<>>
        /\ hist.progress[Len(hist.progress)] = FinalState

\* C17: once a run has succeeded and everything the view does after it is
\* done (the success overlay has been dismissed and the stacks reloaded),
\* updatePRMetadataAfterSync has been called for that run.
C17_SuccessTriggersMetadataSync ==
    (hist.result = "success" /\ syncProgress = <<>>) =>
        "updatePRMetadataAfterSync" \in Range(hist.log)

\* C25: a run that has reached Step 4 or reported success has had its
\* rebase, or the last continue it asked for, exit ok, and no rebase is
\* stopped on a conflict: a run whose last rebase or continue invocation
\* failed does not remove the merged branch and does not report success.
C25_SuccessOnlyAfterCleanExit ==
    (hist.syncs > 0 /\ run.notification # <<>> /\ HasChildren(Children)
       /\ (hist.result = "success" \/ pc \in {"save", "deleteBranch"})) =>
        /\ hist.lastExit = "ok"
        /\ rebase = <<>>

\* C26: every run returns sooner or later, whatever git answers: a continue
\* that keeps failing where the rebase stands, the pattern store reporting
\* resolved files and no file unresolved, is not asked for again and again.
C26_RunAlwaysReturns ==
    (hist.syncs > 0) ~> (hist.result # "none")

\* C27: when the run returns unresolved conflicts, the last rebase or
\* continue has left at least one file the pattern store did not resolve,
\* and that file is in the list the run returns.
C27_UnresolvedMeansAFileIsUnresolved ==
    (hist.result = "unresolved" /\ ~hist.aborted) =>
        /\ getUnresolvedConflicts # {}
        /\ run.allConflicts # {}

\* the operations of a log, in order, from the last rebase on
RECURSIVE SinceRebase(_)
SinceRebase(log) ==
    IF log = <<>> \/ log[Len(log)] = "rebase" THEN <<>>
    ELSE Append(SinceRebase(SubSeq(log, 1, Len(log) - 1)), log[Len(log)])

\* C28: when a run has returned unresolved conflicts, and until the
\* operator aborts, the rebase is still in progress where it stopped: since
\* the rebase was started the engine has asked for nothing but staging and
\* continue, no abort and no checkout.
C28_UnresolvedLeavesRebaseOpen ==
    (hist.result = "unresolved" /\ ~hist.aborted) =>
        /\ rebase # <<>>
        /\ head = ""
        /\ "rebase" \in Range(hist.log)
        /\ Range(SinceRebase(hist.log)) \subseteq {"add", "continue"}

\* unresolved conflicts have been returned after a conflict the pattern
\* store covered and a second one it did not
C28_Witness ==
    /\ hist.result = "unresolved" /\ ~hist.aborted
    /\ pc = "idle" /\ conflictState # <<>>
    /\ hist.conflicts = 2 /\ hist.continues = 1
    /\ rebase # <<>> /\ rebase[1].unmerged = {"f1"}

\* the snapshot on screen reports that the rebase has failed
RebaseErrorShown ==
    /\ syncProgress # <<>>
    /\ syncProgress[1].state = "error"
    /\ syncProgress[1].error \in {<<"rebase">>, <<"conflicts">>}

\* C29: when the error snapshot of a failed rebase is passed to onProgress,
\* the rebase has been aborted and the checkout of the original branch has
\* been asked for.
C29_ErrorReportedAfterAbortAndRestore ==
    RebaseErrorShown =>
        /\ "rebase" \in Range(hist.log)
        /\ SinceRebase(hist.log) = <<"abort", "checkout">>

\* the fetch of the run has failed
FetchFailed == syncProgress # <<>> /\ syncProgress[1].error = <<"fetch">>

\* C30: when the fetch has failed the run has ended in error, the error
\* snapshot following the first one; fetch has been asked for once and
\* nothing else, and the checked-out branch, the local branches, the
\* metadata file and the rebase state are as they were when the run began.
C30_FetchFailureEndsRun ==
    FetchFailed =>
        /\ pc = "idle" /\ hist.result = "error"
        /\ hist.log = <<"fetch">>
        /\ hist.progress = <<"fetching", "error">>
        /\ head = hist.startHead
        /\ localBranches = hist.startBranches
        /\ config = hist.startConfig
        /\ rebase = <<>>

\* the fetch has failed for a run that had child branches to rebase
C30_Witness ==
    /\ FetchFailed
    /\ hist.result = "error"
    /\ Len(Children) = 2
    /\ config # <<>>

\* C31: after a successful run that had child branches, the branch checked
\* out is the one that was checked out when the run began, unless that was
\* the merged branch or no branch at all, and then it is the first child
\* branch.
C31_OriginalBranchRestored ==
    (hist.result = "success" /\ run.notification # <<>> /\ HasChildren(Children)) =>
        head = IF hist.startHead # "" /\ hist.startHead # Merged
               THEN hist.startHead
               ELSE FirstChild(Children)

\* C32: once a run has ended in success the metadata file differs from the
\* one the run began with only in the branches of the stack the notification
\* names, which are the former ones without the merged branch, in their
\* order; the version, the settings, the number of stacks, every other stack
\* and the name and base of that stack are as they were.  The file was
\* written before git branch -d was asked for, and once git branch -d has
\* been asked for the run has ended in success, whether or not the branch
\* was deleted.
C32_OnlyMergedBranchRemoved ==
    /\ (hist.result = "success" /\ run.notification # <<>>) =>
          LET before == loadConfig(hist.startConfig).value
              after  == loadConfig(config).value
              named  == run.notification[1].stackName
          IN  /\ loadConfig(hist.startConfig).ok /\ loadConfig(config).ok
              /\ after.version = before.version
              /\ after.settings = before.settings
              /\ Len(after.stacks) = Len(before.stacks)
              /\ \A i \in 1..Len(before.stacks) :
                    /\ after.stacks[i].name = before.stacks[i].name
                    /\ after.stacks[i].baseBranch = before.stacks[i].baseBranch
                    /\ after.stacks[i].branches =
                          IF before.stacks[i].name = named
                          THEN SelectSeq(before.stacks[i].branches, LAMBDA b : b # Merged)
                          ELSE before.stacks[i].branches
              /\ \A j \in 1..Len(hist.log) :
                    hist.log[j] = "branch-d" =>
                        \E i \in 1..(j - 1) : hist.log[i] = "saveConfig"
    /\ (hist.syncs > 0 /\ "branch-d" \in Range(hist.log)) => hist.result = "success"

\* a run has ended in success although git branch -d left the merged branch
\* in place; the merged branch stood between two others in its stack
C32_Witness ==
    /\ hist.result = "success" /\ run.notification # <<>>
    /\ Merged = "b" /\ Merged \in localBranches
    /\ config # <<>> /\ config[1].stacks[1].branches = <<"a", "c">>
    /\ hist.conflicts >= 1

\* C39: whenever the run is about to stage files and ask for continue, at
\* the first continue and at every turn of the while loop, the files it
\* stages are the ones git rerere status lists for the stop the rebase
\* stands at.
C39_StagedFilesAreTheLatestResolved ==
    /\ pc = "continue1" => run.rerereResolved = getRerereResolvedFiles
    /\ pc = "loop" => run.moreRerereResolved = getRerereResolvedFiles

\* C40: once a run has ended in success the branch checked out is not the
\* merged branch, whether the merged branch had child branches or was the
\* tip of its stack.
C40_NotLeftOnMergedBranch ==
    (hist.result = "success" /\ run.notification # <<>>) => head # Merged

-----------------------------------------------------------------------------
(* Properties of the App (Spec) *)

\* C38: the step that dismisses the merge notification (the notification
\* goes and no progress overlay comes) leaves every stack and every branch
\* in place with its name, pull request number and pull request status;
\* the sync status becomes pending-sync for the branches the notification
\* lists as children and stays what it was for every other branch.  No git
\* command is issued: the working tree, the log of invocations and the
\* metadata file are unchanged.
C38_DismissMarksChildrenOnly ==
    [][(Screen = "merge" /\ mergeNotification' = <<>> /\ syncProgress' = <<>>) =>
          /\ Len(stacks') = Len(stacks)
          /\ \A s \in 1..Len(stacks) :
                /\ stacks'[s].stack = stacks[s].stack
                /\ Len(stacks'[s].branches) = Len(stacks[s].branches)
                /\ \A i \in 1..Len(stacks[s].branches) :
                      LET was == stacks[s].branches[i]
                          is  == stacks'[s].branches[i]
                      IN  /\ is.name = was.name
                          /\ is.prNumber = was.prNumber
                          /\ is.prStatus = was.prStatus
                          /\ is.syncStatus =
                                IF \E k \in 1..Len(mergeNotification[1].childBranches) :
                                      mergeNotification[1].childBranches[k] = was.name
                                THEN "pending-sync"
                                ELSE was.syncStatus
          /\ config' = config /\ hist' = hist /\ pc' = pc
          /\ head' = head /\ localBranches' = localBranches /\ rebase' = rebase
          /\ remote' = remote]_vars

\* the notification for b, merged in the second of two stacks, has been
\* dismissed: its child c is pending-sync, b itself and the branch of the
\* other stack are as they were
C38_Witness ==
    /\ mergeNotification = <<>> /\ handled = {"b"} /\ hist.syncs = 0
    /\ Len(stacks) = 2
    /\ stacks[1].branches[1].syncStatus = "up-to-date"
    /\ stacks[2].branches[1].prStatus = "merged"
    /\ stacks[2].branches[1].syncStatus = "up-to-date"
    /\ stacks[2].branches[2].syncStatus = "pending-sync"

\* performSync has been called and has neither returned nor thrown
InFlight == pc \notin {"idle", "conflictState", "thrown"}

\* C33: while a performSync call is in flight no step changes the stack
\* state on display or the merge notification; in particular no poll that
\* completes during the run does.
C33_PollsSuppressedDuringSync ==
    [][InFlight => (stacks' = stacks /\ mergeNotification' = mergeNotification)]_vars

\* C15: while a performSync call is in flight the merge notification, on
\* which Y calls performSync at once, is not on screen, and no run is
\* started while a rebase left open by an earlier run is still in progress.
C15_OneSyncAtATime ==
    /\ Screen = "merge" => ~InFlight
    /\ hist.syncs > 0 => ~hist.startInRebase

\* the merge notification of branch b is on screen
Surfaced(b) == Screen = "merge" /\ mergeNotification[1].branchName = b

\* C16: every merge event a poll has emitted is surfaced for confirmation
\* sooner or later, also when the same poll emitted several or when
\* another notification was on screen at the time.
C16_DetectedEventsAreSurfaced ==
    \A b \in BranchNames : (b \in detected) ~> (b \in handled \/ Surfaced(b))

\* C5: a pull request is merged once, so a branch whose merge notification
\* has been confirmed or dismissed is never the subject of a notification
\* again, however the poll callbacks overlap.
C5_MergeSurfacedAtMostOnce ==
    mergeNotification # <<>> => mergeNotification[1].branchName \notin handled

====
